---- MODULE Spec2Model ----
(***************************************************************************)
(* LP returns: the swap price index and valuation loop of src/src/index.ts *)
(* and the position / wallet analyzer (calculatePositionStats, main) with  *)
(* the comparison script's calculateExcludedPositions.                     *)
(*                                                                         *)
(* Numbers: the program works in IEEE doubles; the model works in exact    *)
(* integers and, where the code divides, in exact rationals [n, d];        *)
(* calculateXIRR, whose result depends on rounding, is computed in decimal *)
(* floating point with Precision digits, rounded as the doubles are.       *)
(* An optional value (SwapEvent | null) is a sequence of length 0 or 1.     *)
(***************************************************************************)
EXTENDS Integers, Sequences, FiniteSets, TLC

VARIABLES
    \* ---- swap lookups applied to drawn inputs
    lkSwaps, lkBlock, lkIndex, lkBefore, lkAfter, lkDone,
    \* ---- index.ts main: fetch, sort, valuation loop
    ipc, chain, filteredActions, earnings, aeroPriceMap, start, swaps, swapsCache,
    i, outputRows, failed,
    \* ---- analyzer main and the comparison script's position count
    apc, rows, positionMap, positionStats, breakdown, walletStats, excluded,
    walletXirr,
    \* ---- getSwapLogsInRange: the attempt loop around provider.getLogs
    attempt, calls, waits, response, callRange, exitCode,
    \* ---- the input files main finds, and the ranges fetchAllSwapsInRange
    \* ---- has passed to getSwapLogsInRange
    inputFiles, requested,
    \* ---- calculateXIRR: the Newton-Raphson loop
    xpc, cashFlows, sorted, rate, iteration, sums, npvEvals, xirr,
    \* ---- a function of the program applied to a drawn argument
    fn, fnArg, fnResult

lkVars == <<lkSwaps, lkBlock, lkIndex, lkBefore, lkAfter, lkDone>>
idxVars == <<ipc, chain, filteredActions, earnings, aeroPriceMap, start, swaps,
             swapsCache, i, outputRows, failed>>
anVars == <<apc, rows, positionMap, positionStats, breakdown, walletStats, excluded,
            walletXirr>>
rtVars == <<attempt, calls, waits, response, callRange, exitCode, inputFiles, requested>>
xVars == <<xpc, cashFlows, sorted, rate, iteration, sums, npvEvals, xirr>>
fnVars == <<fn, fnArg, fnResult>>
vars == <<lkVars, idxVars, anVars, rtVars, xVars, fnVars>>

-----------------------------------------------------------------------------
(* Bounds of the model *)

MaxSwaps == 3
MaxLogs == 2
MaxActions == 2
MaxRows == 3
MaxInfer == 7
MaxFlows == 3
Precision == 3
MaxWalletRows == 4
MaxPrices == 2

(* Program constants *)

TOKEN0_DECIMALS == 6
TOKEN1_DECIMALS == 8
CHUNK_SIZE == 10000
BUFFER == 50000
retries == 5
maxIterations == 100

-----------------------------------------------------------------------------
(* Generic helpers *)

Min(a, b) == IF a < b THEN a ELSE b
Max(a, b) == IF a > b THEN a ELSE b

RECURSIVE Pow10(_)
Pow10(n) == IF n = 0 THEN 1 ELSE 10 * Pow10(n - 1)

\* All sequences over S of length lo..hi
SeqsUpTo(S, lo, hi) == UNION {[1..n -> S] : n \in lo..hi}

\* Array.prototype.reduce((sum, x) => sum + x, 0) over a sequence of numbers
RECURSIVE SumSeq(_)
SumSeq(s) == IF s = <<>> THEN 0 ELSE Head(s) + SumSeq(Tail(s))

-----------------------------------------------------------------------------
(* The swap price index: src/src/index.ts *)

\* The swap logs of the pool that exist on chain, as the provider can return
\* them: a log is identified by (blockNumber, index); sqrtPriceX96 is kept as
\* the exact ratio sqrtPriceX96 / 2^96 = n / d.
ChainLogs ==
    { [blockNumber |-> 100,   index |-> 1, sqrtPriceX96 |-> [n |-> 1, d |-> 1]],
      [blockNumber |-> 100,   index |-> 3, sqrtPriceX96 |-> [n |-> 2, d |-> 1]],
      [blockNumber |-> 10105, index |-> 2, sqrtPriceX96 |-> [n |-> 1, d |-> 2]] }

\* swap.blockNumber < block || (swap.blockNumber === block && swap.index < logIndex)
SwapIsBefore(swap, block, logIndex) ==
    \/ swap.blockNumber < block
    \/ (swap.blockNumber = block /\ swap.index < logIndex)

\* swap.blockNumber > block || (swap.blockNumber === block && swap.index > logIndex)
SwapIsAfter(swap, block, logIndex) ==
    \/ swap.blockNumber > block
    \/ (swap.blockNumber = block /\ swap.index > logIndex)

\* The comparator of swaps.sort: negative when a sorts before b
SwapCompareLess(a, b) ==
    LET blockDiff == a.blockNumber - b.blockNumber
    IN  IF blockDiff # 0 THEN blockDiff < 0 ELSE a.index - b.index < 0

\* Array.prototype.sort is stable: an element is inserted before the first
\* element it compares less than, so elements that compare equal keep their
\* input order.
RECURSIVE InsertSwap(_, _)
InsertSwap(x, s) ==
    IF s = <<>> THEN <<x>>
    ELSE IF SwapCompareLess(x, Head(s)) THEN <<x>> \o s
    ELSE <<Head(s)>> \o InsertSwap(x, Tail(s))

RECURSIVE SortSwapsFrom(_, _)
SortSwapsFrom(s, k) ==
    IF k = 0 THEN <<>> ELSE InsertSwap(s[k], SortSwapsFrom(s, k - 1))

\* Mutant: the sort is left out.
SortSwapsOmitted(s) == s

SortSwaps(s) == SortSwapsFrom(s, Len(s))

\* for (const swap of swaps) { if (before) result = swap; else break; }
RECURSIVE BeforeScan(_, _, _, _, _)
BeforeScan(sw, block, logIndex, k, result) ==
    IF k > Len(sw) THEN result
    ELSE IF SwapIsBefore(sw[k], block, logIndex)
         THEN BeforeScan(sw, block, logIndex, k + 1, <<sw[k]>>)
         ELSE result

\* Mutant: the comparison admits the swap whose key equals the query key.
BeforeScanInclusive(sw, block, logIndex) ==
    LET S == {k \in 1..Len(sw) :
                \/ sw[k].blockNumber < block
                \/ (sw[k].blockNumber = block /\ sw[k].index <= logIndex)}
    IN  IF S = {} THEN <<>> ELSE <<sw[CHOOSE k \in S : \A j \in S : j <= k]>>

findClosestSwapBeforeFromCache(sw, block, logIndex) ==
    BeforeScan(sw, block, logIndex, 1, <<>>)

\* for (const swap of swaps) { if (after) return swap; } return null;
RECURSIVE AfterScan(_, _, _, _)
AfterScan(sw, block, logIndex, k) ==
    IF k > Len(sw) THEN <<>>
    ELSE IF SwapIsAfter(sw[k], block, logIndex) THEN <<sw[k]>>
    ELSE AfterScan(sw, block, logIndex, k + 1)

\* Mutant: the comparison admits the swap whose key equals the query key.
AfterScanInclusive(sw, block, logIndex) ==
    LET S == {k \in 1..Len(sw) :
                \/ sw[k].blockNumber > block
                \/ (sw[k].blockNumber = block /\ sw[k].index >= logIndex)}
    IN  IF S = {} THEN <<>> ELSE <<sw[CHOOSE k \in S : \A j \in S : k <= j]>>

findClosestSwapAfterFromCache(sw, block, logIndex) ==
    AfterScan(sw, block, logIndex, 1)

\* A list the code keeps: sorted ascending by (blockNumber, index)
IsSortedSwaps(sw) ==
    \A k \in 1..(Len(sw) - 1) : ~SwapCompareLess(sw[k + 1], sw[k])

\* priceToken1PerToken0FromSqrtPriceX96, adjustForDecimals and the inverse:
\* 1 / ((sqrtPriceX96 / 2^96)^2 * 10^(dec0 - dec1)), on the exact ratio n / d
calculateCbBtcPrice(sqrtPriceX96) ==
    (Pow10(TOKEN1_DECIMALS - TOKEN0_DECIMALS) * sqrtPriceX96.d * sqrtPriceX96.d)
        \div (sqrtPriceX96.n * sqrtPriceX96.n)

\* provider.getLogs({fromBlock, toBlock}): the logs of the range, in the order
\* and multiplicity in which the provider holds them
getSwapLogsInRange(fromBlock, toBlock) ==
    SelectSeq(chain, LAMBDA log : fromBlock <= log.blockNumber /\ log.blockNumber <= toBlock)

\* minBlock / maxBlock over filteredActions, then the buffered range of main.
\* With no action minBlock = Infinity and maxBlock = -Infinity: the range is
\* empty, written here as [1, 0].
MinBlock(acts) ==
    CHOOSE b \in {acts[k].block_number : k \in 1..Len(acts)} :
        \A k \in 1..Len(acts) : b <= acts[k].block_number
MaxBlock(acts) ==
    CHOOSE b \in {acts[k].block_number : k \in 1..Len(acts)} :
        \A k \in 1..Len(acts) : b >= acts[k].block_number
FromBlock(acts) == IF acts = <<>> THEN 1 ELSE Max(0, MinBlock(acts) - BUFFER)
ToBlock(acts) == IF acts = <<>> THEN 0 ELSE MaxBlock(acts) + BUFFER

\* Mutant: every action is valued at the swap after it.
findSwapAlwaysAfter(cache, action) ==
    findClosestSwapAfterFromCache(cache, action.block_number, action.log_index)

\* if (action.action === "mint") before else after
findSwapForAction(cache, action) ==
    IF action.action = "mint"
    THEN findClosestSwapBeforeFromCache(cache, action.block_number, action.log_index)
    ELSE findClosestSwapAfterFromCache(cache, action.block_number, action.log_index)

\* The neighbour scan: offsets -5..5 in ascending order, the first neighbour
\* with the same timestamp and a token_id wins (idx is 1-based here).
RECURSIVE InferFrom(_, _, _)
InferFrom(acts, idx, offset) ==
    IF offset > 5 THEN acts[idx].token_id
    ELSE LET neighborIndex == idx + offset
         IN  IF /\ offset # 0
                /\ neighborIndex >= 1
                /\ neighborIndex <= Len(acts)
                /\ acts[neighborIndex].timestamp = acts[idx].timestamp
                /\ acts[neighborIndex].token_id # ""
             THEN acts[neighborIndex].token_id
             ELSE InferFrom(acts, idx, offset + 1)

\* Mutant: the scan starts one record later.
inferredTokenIdNarrow(acts, idx) ==
    IF acts[idx].action = "gauge_getReward" /\ acts[idx].token_id = ""
    THEN InferFrom(acts, idx, -4)
    ELSE acts[idx].token_id

inferredTokenId(acts, idx) ==
    IF acts[idx].action = "gauge_getReward" /\ acts[idx].token_id = ""
    THEN InferFrom(acts, idx, -5)
    ELSE acts[idx].token_id

\* earningsMap / getRewardByTimestamp: Map.set in file order, so the last row
\* of a key wins; "|| 0" when the key has no row. S is the set of the rows of
\* the key.
LastReward(earn, S) ==
    IF S = {} THEN 0 ELSE earn[CHOOSE k \in S : \A j \in S : j <= k].reward

rewardOf(earn, action) ==
    IF action.action = "gauge_getReward" /\ action.token_id = ""
    THEN LastReward(earn, {k \in 1..Len(earn) :
                              /\ earn[k].action = "gauge_getReward"
                              /\ earn[k].token_id = ""
                              /\ earn[k].timestamp = action.timestamp})
    ELSE LastReward(earn, {k \in 1..Len(earn) :
                              /\ earn[k].timestamp = action.timestamp
                              /\ earn[k].action = action.action
                              /\ earn[k].token_id = action.token_id})

Abs(x) == IF x < 0 THEN -x ELSE x

\* Mutant: a later entry at the same distance replaces the earlier one.
closerOrEqual(diff, minDiff) == minDiff = <<>> \/ diff <= minDiff[1]

\* diff < minDiff, minDiff starting at Infinity (the empty sequence)
closer(diff, minDiff) == minDiff = <<>> \/ diff < minDiff[1]

\* The loop of getAeroPrice from entry k of the map on, in insertion order
RECURSIVE closestFrom(_, _, _, _, _)
closestFrom(priceMap, targetUnix, k, minDiff, closestPrice) ==
    IF k > Len(priceMap) THEN closestPrice
    ELSE LET diff == Abs(priceMap[k].time - targetUnix)
         IN  IF closer(diff, minDiff)
             THEN closestFrom(priceMap, targetUnix, k + 1, <<diff>>, priceMap[k].price)
             ELSE closestFrom(priceMap, targetUnix, k + 1, minDiff, closestPrice)

\* getAeroPrice: the fallback 1.0 on an empty map, else the result of the loop
getAeroPrice(priceMap, timestamp) ==
    IF Len(priceMap) = 0 THEN 1
    ELSE closestFrom(priceMap, timestamp, 1, <<>>, 1)

\* The output row pushed for a resolved action
OutputRow(acts, idx, swapEvent) ==
    LET action == acts[idx]
        cbBtcPrice == calculateCbBtcPrice(swapEvent.sqrtPriceX96)
        reward == rewardOf(earnings, action)
        aeroPrice == getAeroPrice(aeroPriceMap, action.timestamp)
    IN  [ timestamp   |-> action.timestamp,
          block       |-> action.block_number,
          block_index |-> action.log_index,
          swap_block  |-> swapEvent.blockNumber,
          swap_index  |-> swapEvent.index,
          token_id    |-> inferredTokenId(acts, idx),
          action      |-> action.action,
          cbBTC_price |-> cbBtcPrice,
          AERO_price  |-> aeroPrice,
          amount0_dec |-> action.amount0_dec,
          amount1_dec |-> action.amount1_dec,
          fee0_dec    |-> action.fee0_dec,
          fee1_dec    |-> action.fee1_dec,
          reward      |-> reward,
          amount0_usd |-> action.amount0_dec,
          amount1_usd |-> action.amount1_dec * cbBtcPrice,
          AERO_usd    |-> reward * aeroPrice ]

-----------------------------------------------------------------------------
(* Inputs of the valuation run *)

ActionKinds == {"mint", "burn", "collect", "gauge_getReward"}
ActionKeys == {<<100, 1>>, <<100, 2>>, <<10105, 2>>}

\* A block has one timestamp
TimestampOfBlock(b) == IF b < 10000 THEN 1000 ELSE 2000

\* A row of actions.csv after the cast of main
ActionRow(kind, key) ==
    [ timestamp    |-> TimestampOfBlock(key[1]),
      block_number |-> key[1],
      log_index    |-> key[2],
      action       |-> kind,
      token_id     |-> IF kind = "gauge_getReward" THEN "" ELSE "t1",
      amount0_dec  |-> IF kind \in {"mint", "burn"} THEN 10 ELSE 0,
      amount1_dec  |-> IF kind \in {"mint", "burn"} THEN 2 ELSE 0,
      fee0_dec     |-> IF kind = "collect" THEN 1 ELSE 0,
      fee1_dec     |-> IF kind = "collect" THEN 1 ELSE 0 ]

ActionRows == {ActionRow(kind, key) : kind \in ActionKinds, key \in ActionKeys}

\* earnings_per_action.csv
EarningsFile ==
    << [timestamp |-> 1000, action |-> "gauge_getReward", token_id |-> "", reward |-> 3],
       [timestamp |-> 2000, action |-> "burn", token_id |-> "t1", reward |-> 2] >>

\* The AERO price points of fetchAeroPrices, in insertion order
AeroPrices == << [time |-> 900, price |-> 2], [time |-> 2100, price |-> 3] >>

-----------------------------------------------------------------------------
(* The lookups applied to drawn inputs *)

LkIdle ==
    /\ lkSwaps = <<>>
    /\ lkBlock = 0
    /\ lkIndex = 0
    /\ lkBefore = <<>>
    /\ lkAfter = <<>>
    /\ lkDone = {}

LkInit ==
    /\ lkSwaps \in {sw \in SeqsUpTo(ChainLogs, 0, MaxSwaps) : IsSortedSwaps(sw)}
    /\ lkBlock \in {99, 100, 10105, 10106}
    /\ lkIndex \in 1..3
    /\ lkBefore = <<>>
    /\ lkAfter = <<>>
    /\ lkDone = {}

LookupBefore ==
    /\ "before" \notin lkDone
    /\ lkBefore' = findClosestSwapBeforeFromCache(lkSwaps, lkBlock, lkIndex)
    /\ lkDone' = lkDone \cup {"before"}
    /\ UNCHANGED <<lkSwaps, lkBlock, lkIndex, lkAfter, idxVars, anVars, rtVars, xVars, fnVars>>

LookupAfter ==
    /\ "after" \notin lkDone
    /\ lkAfter' = findClosestSwapAfterFromCache(lkSwaps, lkBlock, lkIndex)
    /\ lkDone' = lkDone \cup {"after"}
    /\ UNCHANGED <<lkSwaps, lkBlock, lkIndex, lkBefore, idxVars, anVars, rtVars, xVars, fnVars>>

-----------------------------------------------------------------------------
(* index.ts main *)

IdxIdle ==
    /\ ipc = "idle"
    /\ chain = <<>>
    /\ filteredActions = <<>>
    /\ earnings = <<>>
    /\ aeroPriceMap = <<>>
    /\ start = 0
    /\ swaps = <<>>
    /\ swapsCache = <<>>
    /\ i = 0
    /\ outputRows = <<>>
    /\ failed = <<>>

\* After the input files are read and filtered: the fetch loop is about to start
IdxInit ==
    /\ ipc = "fetch"
    /\ chain \in SeqsUpTo(ChainLogs, 0, MaxLogs)
    /\ filteredActions \in SeqsUpTo(ActionRows, 0, MaxActions)
    /\ earnings = EarningsFile
    /\ aeroPriceMap = AeroPrices
    /\ start = FromBlock(filteredActions)
    /\ swaps = <<>>
    /\ swapsCache = <<>>
    /\ i = 1
    /\ outputRows = <<>>
    /\ failed = <<>>

\* Mutant: the end of a chunk is the start of the next.
ChunkRangeOverlap == <<start, Min(start + CHUNK_SIZE, ToBlock(filteredActions))>>

\* The range of the chunk the loop of fetchAllSwapsInRange is at
ChunkRange == <<start, Min(start + CHUNK_SIZE - 1, ToBlock(filteredActions))>>

\* calls, waits: the provider calls made and the waits slept by the running
\* invocation of getSwapLogsInRange; attempt = 0 is a new invocation.
CallsSoFar == IF attempt = 0 THEN 0 ELSE calls
WaitsSoFar == IF attempt = 0 THEN <<>> ELSE waits

\* requested: the ranges fetchAllSwapsInRange has called getSwapLogsInRange
\* with, the call that is running included
RequestedNow == IF attempt = 0 THEN Append(requested, ChunkRange) ELSE requested

RECURSIVE Pow2(_)
Pow2(n) == IF n = 0 THEN 1 ELSE 2 * Pow2(n - 1)

\* Mutant: a rate-limit error is retried on the last attempt too.
mayRetryAlways(isRateLimit, att) == isRateLimit

\* if (isRateLimit && attempt < retries - 1)
mayRetry(isRateLimit, att) == isRateLimit /\ att < retries - 1

\* One iteration of the chunk loop of fetchAllSwapsInRange whose provider call
\* succeeds: getSwapLogsInRange returns the logs, they are pushed, the loop
\* moves to the next chunk
FetchChunk ==
    /\ ipc = "fetch"
    /\ start <= ToBlock(filteredActions)
    /\ attempt < retries
    /\ swaps' = swaps \o getSwapLogsInRange(ChunkRange[1], ChunkRange[2])
    /\ start' = start + CHUNK_SIZE
    /\ calls' = CallsSoFar + 1
    /\ waits' = WaitsSoFar
    /\ response' = "ok"
    /\ callRange' = ChunkRange
    /\ requested' = RequestedNow
    /\ attempt' = 0
    /\ UNCHANGED <<ipc, chain, filteredActions, earnings, aeroPriceMap, swapsCache,
                   i, outputRows, failed, exitCode, inputFiles, lkVars, anVars, xVars,
                   fnVars>>

\* The provider call fails with a rate-limit error and the attempt is not the
\* last: sleep 2^attempt * 1000 ms, continue with the next attempt
RateLimitRetry ==
    /\ ipc = "fetch"
    /\ start <= ToBlock(filteredActions)
    /\ attempt < retries
    /\ mayRetry(TRUE, attempt)
    /\ calls' = CallsSoFar + 1
    /\ waits' = Append(WaitsSoFar, Pow2(attempt) * 1000)
    /\ response' = "rate limit"
    /\ callRange' = ChunkRange
    /\ requested' = RequestedNow
    /\ attempt' = attempt + 1
    /\ UNCHANGED <<idxVars, exitCode, inputFiles, lkVars, anVars, xVars, fnVars>>

\* The provider call fails and the error is rethrown: it leaves
\* fetchAllSwapsInRange and main, and main().catch exits with code 1
FetchThrow ==
    /\ ipc = "fetch"
    /\ start <= ToBlock(filteredActions)
    /\ attempt < retries
    /\ \E isRateLimit \in BOOLEAN :
          /\ ~mayRetry(isRateLimit, attempt)
          /\ response' = IF isRateLimit THEN "rate limit" ELSE "error"
    /\ calls' = CallsSoFar + 1
    /\ waits' = WaitsSoFar
    /\ callRange' = ChunkRange
    /\ requested' = RequestedNow
    /\ ipc' = "aborted"
    /\ exitCode' = <<1>>
    /\ UNCHANGED <<chain, filteredActions, earnings, aeroPriceMap, start, swaps,
                   swapsCache, i, outputRows, failed, attempt, inputFiles, lkVars, anVars,
                   xVars, fnVars>>

\* Mutant: only actions.csv is looked for.
inputsMissingActionsOnly(files) == "actions.csv" \notin files

\* The two existsSync tests at the start of main
inputsMissing(files) ==
    \/ "actions.csv" \notin files
    \/ "earnings_per_action.csv" \notin files

\* main with an input file missing: console.error, process.exit(1)
AbortMissingInput ==
    /\ ipc = "start"
    /\ inputsMissing(inputFiles)
    /\ ipc' = "aborted"
    /\ exitCode' = <<1>>
    /\ UNCHANGED <<chain, filteredActions, earnings, aeroPriceMap, start, swaps,
                   swapsCache, i, outputRows, failed, attempt, calls, waits,
                   response, callRange, inputFiles, requested, lkVars, anVars,
                   xVars, fnVars>>

\* main with both files present: the files are read and parsed, the actions
\* filtered and the block range determined.  The price map, which main
\* fetches after the swaps and which nothing reads before the valuation
\* loop, is set here.
ReadInputs ==
    /\ ipc = "start"
    /\ ~inputsMissing(inputFiles)
    /\ filteredActions' \in SeqsUpTo(ActionRows, 0, MaxActions)
    /\ earnings' = EarningsFile
    /\ aeroPriceMap' = AeroPrices
    /\ start' = FromBlock(filteredActions')
    /\ ipc' = "fetch"
    /\ UNCHANGED <<chain, swaps, swapsCache, i, outputRows, failed, lkVars,
                   anVars, rtVars, xVars, fnVars>>

\* The end of fetchAllSwapsInRange: swaps.sort(...), return swaps
SortAndReturn ==
    /\ ipc = "fetch"
    /\ start > ToBlock(filteredActions)
    /\ swapsCache' = SortSwaps(swaps)
    /\ ipc' = "value"
    /\ UNCHANGED <<chain, filteredActions, earnings, aeroPriceMap, start, swaps,
                   i, outputRows, failed, lkVars, anVars, rtVars, xVars, fnVars>>

\* One iteration of the valuation loop whose lookup finds a swap
ValueAction ==
    /\ ipc = "value"
    /\ i <= Len(filteredActions)
    /\ LET swapEvent == findSwapForAction(swapsCache, filteredActions[i])
       IN  /\ swapEvent # <<>>
           /\ outputRows' = Append(outputRows, OutputRow(filteredActions, i, swapEvent[1]))
    /\ i' = i + 1
    /\ UNCHANGED <<ipc, chain, filteredActions, earnings, aeroPriceMap, start, swaps,
                   swapsCache, failed, lkVars, anVars, rtVars, xVars, fnVars>>

\* Mutant: the loop is left at the first action without a swap.
FailActionBreaks ==
    /\ ipc = "value"
    /\ i <= Len(filteredActions)
    /\ findSwapForAction(swapsCache, filteredActions[i]) = <<>>
    /\ failed' = Append(failed, [action |-> filteredActions[i], reason |-> "no_swap_found"])
    /\ i' = Len(filteredActions) + 1
    /\ UNCHANGED <<ipc, chain, filteredActions, earnings, aeroPriceMap, start, swaps,
                   swapsCache, outputRows, lkVars, anVars, rtVars, xVars, fnVars>>

\* One iteration of the valuation loop whose lookup finds none
FailAction ==
    /\ ipc = "value"
    /\ i <= Len(filteredActions)
    /\ findSwapForAction(swapsCache, filteredActions[i]) = <<>>
    /\ failed' = Append(failed, [action |-> filteredActions[i], reason |-> "no_swap_found"])
    /\ i' = i + 1
    /\ UNCHANGED <<ipc, chain, filteredActions, earnings, aeroPriceMap, start, swaps,
                   swapsCache, outputRows, lkVars, anVars, rtVars, xVars, fnVars>>

\* The messages of the errors an iteration can end with
ErrorMessages == {"processing error"}

\* One iteration of the valuation loop that throws after its swap was found
\* and before its row is pushed: catch (error) { failed.push({ action,
\* reason: error.message }) }
ThrowAction ==
    /\ ipc = "value"
    /\ i <= Len(filteredActions)
    /\ findSwapForAction(swapsCache, filteredActions[i]) # <<>>
    /\ \E message \in ErrorMessages :
          failed' = Append(failed, [action |-> filteredActions[i], reason |-> message])
    /\ i' = i + 1
    /\ UNCHANGED <<ipc, chain, filteredActions, earnings, aeroPriceMap, start, swaps,
                   swapsCache, outputRows, lkVars, anVars, rtVars, xVars, fnVars>>

\* The loop is over: the output and failed files are written, main returns
WriteOutput ==
    /\ ipc = "value"
    /\ i > Len(filteredActions)
    /\ ipc' = "done"
    /\ exitCode' = <<0>>
    /\ UNCHANGED <<chain, filteredActions, earnings, aeroPriceMap, start, swaps,
                   swapsCache, i, outputRows, failed, attempt, calls, waits, response,
                   callRange, inputFiles, requested, lkVars, anVars, xVars, fnVars>>

\* The records the token_id inference is run on: a gauge_getReward with no
\* token_id, a burn of t1 and a mint of t2 in the same block (the mint has no
\* swap before it), and a burn of t1 in a later block (no swap after it).
InferRows ==
    { [ActionRow("gauge_getReward", <<100, 2>>) EXCEPT !.token_id = ""],
      [ActionRow("burn", <<100, 2>>) EXCEPT !.token_id = "t1"],
      [ActionRow("mint", <<100, 1>>) EXCEPT !.token_id = "t2"],
      [ActionRow("burn", <<10105, 2>>) EXCEPT !.token_id = "t1"] }

\* The swaps on chain for those runs, as fetchAllSwapsInRange returns them
InferChain == SortSwaps(
    << [blockNumber |-> 100,   index |-> 1, sqrtPriceX96 |-> [n |-> 1, d |-> 1]],
       [blockNumber |-> 100,   index |-> 3, sqrtPriceX96 |-> [n |-> 2, d |-> 1]],
       [blockNumber |-> 10105, index |-> 2, sqrtPriceX96 |-> [n |-> 1, d |-> 2]] >>)

\* The value of start when the chunk loop of fetchAllSwapsInRange has ended
StartAfterFetch(acts) ==
    LET from == FromBlock(acts)
        to == ToBlock(acts)
    IN  IF from > to THEN from
        ELSE from + (((to - from) \div CHUNK_SIZE) + 1) * CHUNK_SIZE

\* The swaps are fetched and sorted: the valuation loop is about to start
InferInit ==
    /\ ipc = "value"
    /\ chain = InferChain
    /\ filteredActions \in SeqsUpTo(InferRows, 0, MaxInfer)
    /\ earnings = EarningsFile
    /\ aeroPriceMap = AeroPrices
    /\ start = StartAfterFetch(filteredActions)
    /\ swaps = IF filteredActions = <<>> THEN <<>> ELSE InferChain
    /\ swapsCache = IF filteredActions = <<>> THEN <<>> ELSE InferChain
    /\ i = 1
    /\ outputRows = <<>>
    /\ failed = <<>>

-----------------------------------------------------------------------------
(* Analyzer *)

\* Exact rationals n / d with d > 0, for the values the code gets by division
Rat(n, d) == [n |-> n, d |-> d]
RatOfInt(x) == Rat(x, 1)
RatAdd(p, q) == Rat(p.n * q.d + q.n * p.d, p.d * q.d)
RatSub(p, q) == Rat(p.n * q.d - q.n * p.d, p.d * q.d)
RatMulInt(p, x) == Rat(p.n * x, p.d)
RatEq(p, q) == p.n * q.d = q.n * p.d

RECURSIVE RatSumSeq(_)
RatSumSeq(s) == IF s = <<>> THEN RatOfInt(0) ELSE RatAdd(Head(s), RatSumSeq(Tail(s)))

\* Timestamps are whole time units; a day has TicksPerDay of them (the code
\* divides milliseconds by 1000 * 60 * 60 * 24).
TicksPerDay == 2

\* A row of transaction_details.csv as index.ts writes it and the analyzer's
\* cast reads it: amount0_usd = amount0_dec, amount1_usd = amount1_dec * price,
\* AERO_usd = reward * AERO price.
AnalysisRow(token, action, ts, price, a0, a1, f0, f1, reward, aero) ==
    [ timestamp   |-> ts,
      token_id    |-> token,
      action      |-> action,
      cbBTC_price |-> price,
      amount0_dec |-> a0,
      amount1_dec |-> a1,
      fee0_dec    |-> f0,
      fee1_dec    |-> f1,
      reward      |-> reward,
      amount0_usd |-> a0,
      amount1_usd |-> a1 * price,
      AERO_usd    |-> reward * aero ]

\* The rows a transaction_details file is drawn from: two mints and three
\* burns of position t1 at different prices (one burn withdraws no cbBTC), a
\* collect with fees, a gauge_getReward attributed to t1, a mint and a burn of
\* position t2, and a gauge_getReward with no token_id.
AnalysisRows ==
    { AnalysisRow("t1", "mint", 1, 100, 10, 2, 0, 0, 0, 2),
      AnalysisRow("t1", "mint", 2, 25, 20, 1, 0, 0, 0, 2),
      AnalysisRow("t1", "burn", 3, 100, 5, 3, 0, 0, 2, 2),
      AnalysisRow("t1", "burn", 4, 25, 30, 1, 0, 0, 0, 2),
      AnalysisRow("t1", "burn", 2, 25, 40, 0, 0, 0, 0, 2),
      AnalysisRow("t1", "collect", 3, 100, 0, 0, 1, 1, 0, 2),
      AnalysisRow("t1", "gauge_getReward", 3, 100, 0, 0, 0, 0, 3, 2),
      AnalysisRow("t2", "mint", 2, 25, 8, 1, 0, 0, 0, 2),
      AnalysisRow("t2", "burn", 5, 100, 50, 2, 0, 0, 1, 3),
      AnalysisRow("", "gauge_getReward", 4, 25, 0, 0, 0, 0, 1, 3) }

\* mints.sort / burns.sort by timestamp: stable, ascending
RECURSIVE InsertByTimestamp(_, _)
InsertByTimestamp(x, s) ==
    IF s = <<>> THEN <<x>>
    ELSE IF x.timestamp - Head(s).timestamp < 0 THEN <<x>> \o s
    ELSE <<Head(s)>> \o InsertByTimestamp(x, Tail(s))

RECURSIVE SortByTimestampFrom(_, _)
SortByTimestampFrom(s, k) ==
    IF k = 0 THEN <<>> ELSE InsertByTimestamp(s[k], SortByTimestampFrom(s, k - 1))

SortByTimestamp(s) == SortByTimestampFrom(s, Len(s))

\* rows.filter(r => r.action === kind)
OfAction(rs, kind) == SelectSeq(rs, LAMBDA r : r.action = kind)

Mints(rs) == SortByTimestamp(OfAction(rs, "mint"))
Burns(rs) == SortByTimestamp(OfAction(rs, "burn"))
Collects(rs) == OfAction(rs, "collect")

\* Mutant: gauge_getReward rows of the position are counted too.
RewardRowsAll(rs) == rs

\* rows.filter(r => r.action !== "gauge_getReward")
RewardRows(rs) == SelectSeq(rs, LAMBDA r : r.action # "gauge_getReward")

UsdValue(r) == r.amount0_usd + r.amount1_usd
FeeUsd(c) == c.fee0_dec + (c.fee1_dec * c.cbBTC_price)

total_deposit_usdc(rs) == SumSeq([k \in 1..Len(Mints(rs)) |-> Mints(rs)[k].amount0_dec])
total_deposit_cbbtc(rs) == SumSeq([k \in 1..Len(Mints(rs)) |-> Mints(rs)[k].amount1_dec])
total_deposit_usd(rs) == SumSeq([k \in 1..Len(Mints(rs)) |-> UsdValue(Mints(rs)[k])])
total_withdraw_usdc(rs) == SumSeq([k \in 1..Len(Burns(rs)) |-> Burns(rs)[k].amount0_dec])
total_withdraw_cbbtc(rs) == SumSeq([k \in 1..Len(Burns(rs)) |-> Burns(rs)[k].amount1_dec])
total_withdraw_usd(rs) == SumSeq([k \in 1..Len(Burns(rs)) |-> UsdValue(Burns(rs)[k])])
btc_price_at_first_mint(rs) == IF Mints(rs) # <<>> THEN Mints(rs)[1].cbBTC_price ELSE 0
btc_price_at_first_burn(rs) == IF Burns(rs) # <<>> THEN Burns(rs)[1].cbBTC_price ELSE 0
total_fees_usd(rs) == SumSeq([k \in 1..Len(Collects(rs)) |-> FeeUsd(Collects(rs)[k])])
total_aero_rewards(rs) ==
    SumSeq([k \in 1..Len(RewardRows(rs)) |-> RewardRows(rs)[k].reward])
total_aero_rewards_usd(rs) ==
    SumSeq([k \in 1..Len(RewardRows(rs)) |-> RewardRows(rs)[k].AERO_usd])

\* if (first_mint && first_burn)
HasMintAndBurn(rs) == Mints(rs) # <<>> /\ Burns(rs) # <<>>

active_time_seconds(rs) ==
    IF HasMintAndBurn(rs) THEN Burns(rs)[1].timestamp - Mints(rs)[1].timestamp ELSE 0

\* Mutant: the exit price is always the first burn's reference price.
avgExitPriceFirstBurn(rs) == RatOfInt(btc_price_at_first_burn(rs))

\* totalCbbtcWithdrawn > 0 ? (totalWithdrawValue - sum of amount0_dec) / totalCbbtcWithdrawn
\*                         : btc_price_at_first_burn
avgExitPrice(rs) ==
    LET totalWithdrawValue == SumSeq([k \in 1..Len(Burns(rs)) |-> UsdValue(Burns(rs)[k])])
        totalCbbtcWithdrawn == SumSeq([k \in 1..Len(Burns(rs)) |-> Burns(rs)[k].amount1_dec])
    IN  IF totalCbbtcWithdrawn > 0
        THEN Rat(totalWithdrawValue - total_withdraw_usdc(rs), totalCbbtcWithdrawn)
        ELSE RatOfInt(btc_price_at_first_burn(rs))

\* total_deposit_usdc + (total_deposit_cbbtc * avgExitPrice)
hodlValueAtExitUSD(rs) ==
    RatAdd(RatOfInt(total_deposit_usdc(rs)), RatMulInt(avgExitPrice(rs), total_deposit_cbbtc(rs)))

impermanent_loss_usd(rs) ==
    IF HasMintAndBurn(rs) /\ Len(Burns(rs)) > 0
    THEN RatSub(RatOfInt(total_withdraw_usd(rs)), hodlValueAtExitUSD(rs))
    ELSE RatOfInt(0)

\* Mutant: the rewards are left out of the profit.
profitWithoutRewards(rs) ==
    IF HasMintAndBurn(rs) THEN total_withdraw_usd(rs) - total_deposit_usd(rs) ELSE 0

\* (lpValueAtExitUSD - hodlValueAtDepositUSD) + collectedRewardsAmountUSD
profit_usd(rs) ==
    IF HasMintAndBurn(rs)
    THEN (total_withdraw_usd(rs) - total_deposit_usd(rs)) + total_aero_rewards_usd(rs)
    ELSE 0

\* The cash flows handed to calculateXIRR for one position
CashFlow(date, amount) == [date |-> date, amount |-> amount]

PositionCashFlows(rs) ==
    LET fees == SelectSeq(Collects(rs), LAMBDA c : FeeUsd(c) > 0)
        rew == SelectSeq(rs, LAMBDA r : r.action # "gauge_getReward" /\ r.AERO_usd > 0)
    IN  [k \in 1..Len(Mints(rs)) |-> CashFlow(Mints(rs)[k].timestamp, -UsdValue(Mints(rs)[k]))]
        \o [k \in 1..Len(Burns(rs)) |-> CashFlow(Burns(rs)[k].timestamp, UsdValue(Burns(rs)[k]))]
        \o [k \in 1..Len(fees) |-> CashFlow(fees[k].timestamp, FeeUsd(fees[k]))]
        \o [k \in 1..Len(rew) |-> CashFlow(rew[k].timestamp, rew[k].AERO_usd)]

\* The record calculatePositionStats returns. hodlValueAtExitUSD and
\* total_aero_rewards_usd are locals of the function, kept here for the
\* properties about them; cashFlows is the argument of its calculateXIRR call.
calculatePositionStats(rs) ==
    [ token_id                |-> IF rs[1].token_id # "" THEN rs[1].token_id ELSE "unknown",
      events_count            |-> Len(rs),
      mint_count              |-> Len(Mints(rs)),
      first_mint_timestamp    |-> IF Mints(rs) # <<>> THEN <<Mints(rs)[1].timestamp>> ELSE <<>>,
      total_deposit_usdc      |-> total_deposit_usdc(rs),
      total_deposit_cbbtc     |-> total_deposit_cbbtc(rs),
      total_deposit_usd       |-> total_deposit_usd(rs),
      btc_price_at_first_mint |-> btc_price_at_first_mint(rs),
      burn_count              |-> Len(Burns(rs)),
      first_burn_timestamp    |-> IF Burns(rs) # <<>> THEN <<Burns(rs)[1].timestamp>> ELSE <<>>,
      total_withdraw_usdc     |-> total_withdraw_usdc(rs),
      total_withdraw_cbbtc    |-> total_withdraw_cbbtc(rs),
      total_withdraw_usd      |-> total_withdraw_usd(rs),
      btc_price_at_first_burn |-> btc_price_at_first_burn(rs),
      total_fees_usd          |-> total_fees_usd(rs),
      total_aero_rewards      |-> total_aero_rewards(rs),
      total_aero_rewards_usd  |-> total_aero_rewards_usd(rs),
      active_time_seconds     |-> active_time_seconds(rs),
      hodlValueAtExitUSD      |-> IF HasMintAndBurn(rs) THEN hodlValueAtExitUSD(rs) ELSE RatOfInt(0),
      impermanent_loss_usd    |-> impermanent_loss_usd(rs),
      profit_usd              |-> profit_usd(rs),
      cashFlows               |-> PositionCashFlows(rs) ]

\* The token_ids of the rows, each once, in order of first appearance: the key
\* order of positionMap (rows without token_id are skipped)
RECURSIVE TokenOrder(_, _)
TokenOrder(rs, seen) ==
    IF rs = <<>> THEN <<>>
    ELSE IF Head(rs).token_id = "" \/ Head(rs).token_id \in seen
         THEN TokenOrder(Tail(rs), seen)
         ELSE <<Head(rs).token_id>> \o TokenOrder(Tail(rs), seen \cup {Head(rs).token_id})

\* positionMap: token_id -> rows, in insertion order
GroupByTokenId(rs) ==
    LET order == TokenOrder(rs, {})
    IN  [k \in 1..Len(order) |->
            [token_id |-> order[k],
             rows     |-> SelectSeq(rs, LAMBDA r : r.token_id = order[k])]]

IsComplete(p) == p.mint_count > 0 /\ p.burn_count > 0

\* Mutant: every position without a mint counts as pre-existing.
IsPreExistingNoMint(p) == p.mint_count = 0

IsPreExisting(p) == p.mint_count = 0 /\ p.burn_count > 0
IsUnclosed(p) == p.mint_count > 0 /\ p.burn_count = 0

\* completePositionsCount, preExistingCount, unclosedPositionsCount, excludedCount
PositionBreakdown(stats) ==
    LET complete == Len(SelectSeq(stats, IsComplete))
        pre == Len(SelectSeq(stats, IsPreExisting))
        unclosed == Len(SelectSeq(stats, IsUnclosed))
    IN  [ completePositionsCount |-> complete,
          preExistingCount       |-> pre,
          unclosedPositionsCount |-> unclosed,
          excludedCount          |-> pre + unclosed ]

\* Mutant: the wallet totals take every row.
RowsFromAllPositions(rs, stats) == rs

\* rows.filter(r => !r.token_id || completePositionTokenIds.has(r.token_id))
RowsFromCompletePositions(rs, stats) ==
    LET completePositionTokenIds ==
            {stats[k].token_id : k \in {j \in 1..Len(stats) : IsComplete(stats[j])}}
    IN  SelectSeq(rs, LAMBDA r : r.token_id = "" \/ r.token_id \in completePositionTokenIds)

\* dailyStats.length: one entry per distinct date (timestamp.split('T')[0])
DateOf(ts) == ts \div TicksPerDay
DaysWithEvents(rs) == Cardinality({DateOf(rs[k].timestamp) : k \in 1..Len(rs)})

\* days_active: the span from the earliest to the latest row in days, or the
\* number of days with events when there are fewer than 2 rows or the span is
\* under 0.001 day
DaysActive(rs) ==
    IF Len(rs) >= 2
    THEN LET timestamps == {rs[k].timestamp : k \in 1..Len(rs)}
             earliest == CHOOSE t \in timestamps : \A u \in timestamps : t <= u
             latest == CHOOSE t \in timestamps : \A u \in timestamps : t >= u
         IN  IF (latest - earliest) * 1000 < TicksPerDay
             THEN RatOfInt(DaysWithEvents(rs))
             ELSE Rat(latest - earliest, TicksPerDay)
    ELSE RatOfInt(DaysWithEvents(rs))

\* walletCashFlows: mints, burns, collects with a positive fee, rows with a
\* positive AERO_usd
WalletCashFlows(rc) ==
    LET mints == OfAction(rc, "mint")
        burns == OfAction(rc, "burn")
        fees == SelectSeq(OfAction(rc, "collect"), LAMBDA c : FeeUsd(c) > 0)
        rew == SelectSeq(rc, LAMBDA r : r.AERO_usd > 0)
    IN  [k \in 1..Len(mints) |-> CashFlow(mints[k].timestamp, -UsdValue(mints[k]))]
        \o [k \in 1..Len(burns) |-> CashFlow(burns[k].timestamp, UsdValue(burns[k]))]
        \o [k \in 1..Len(fees) |-> CashFlow(fees[k].timestamp, FeeUsd(fees[k]))]
        \o [k \in 1..Len(rew) |-> CashFlow(rew[k].timestamp, rew[k].AERO_usd)]

\* walletStats.positions_count > 0 ? totalDepositsCompletePositions / positions_count : 0
avgDepositPerPosition(totalDeposits, n) ==
    IF n > 0 THEN Rat(totalDeposits, n) ELSE RatOfInt(0)

\* Mutant: the return is taken on the total deposits.
WalletAprOnTotal(profit, totalDeposits, n, days) ==
    IF totalDeposits > 0 /\ days.n > 0
    THEN <<Rat(profit * 365 * 100 * days.d, totalDeposits * days.n)>>
    ELSE <<>>

\* if (avgDepositPerPosition > 0 && days_active > 0)
\*     apr = ((total_profit_usd / avgDepositPerPosition) * 365 / days_active) * 100
\* none (<<>>) or one rational
WalletApr(profit, totalDeposits, n, days) ==
    LET avg == avgDepositPerPosition(totalDeposits, n)
    IN  IF avg.n > 0 /\ days.n > 0
        THEN <<Rat(profit * avg.d * 365 * 100 * days.d, avg.n * days.n)>>
        ELSE <<>>

\* walletStats of main, with the gauge_getReward additions and the APR;
\* cashFlows is the argument of the wallet's calculateXIRR call. apr is none
\* (<<>>) or one rational.
WalletStats(rs, stats) ==
    LET rc == RowsFromCompletePositions(rs, stats)
        completePositions == SelectSeq(stats, IsComplete)
        n == Len(completePositions)
        Total(F(_)) == SumSeq([k \in 1..n |-> F(completePositions[k])])
        totalDeposits == Total(LAMBDA p : p.total_deposit_usd)
        totalWithdrawals == Total(LAMBDA p : p.total_withdraw_usd)
        gauge == OfAction(rc, "gauge_getReward")
        gaugeRewards == SumSeq([k \in 1..Len(gauge) |-> gauge[k].reward])
        gaugeRewardsUsd == SumSeq([k \in 1..Len(gauge) |-> gauge[k].AERO_usd])
        profit == Total(LAMBDA p : p.profit_usd) + gaugeRewardsUsd
        days == DaysActive(rc)
    IN  [ positions_count       |-> n,
          events_count          |-> Len(rc),
          total_deposit_usdc    |-> Total(LAMBDA p : p.total_deposit_usdc),
          total_deposit_cbbtc   |-> Total(LAMBDA p : p.total_deposit_cbbtc),
          total_deposit_usd     |-> totalDeposits,
          total_withdraw_usdc   |-> Total(LAMBDA p : p.total_withdraw_usdc),
          total_withdraw_cbbtc  |-> Total(LAMBDA p : p.total_withdraw_cbbtc),
          total_withdraw_usd    |-> totalWithdrawals,
          avg_active_time_seconds |->
              IF n > 0 THEN Rat(Total(LAMBDA p : p.active_time_seconds), n) ELSE RatOfInt(0),
          total_fees_usd        |-> Total(LAMBDA p : p.total_fees_usd),
          total_collected_aero_rewards |->
              Total(LAMBDA p : p.total_aero_rewards) + gaugeRewards,
          total_collected_aero_rewards_usd |->
              SumSeq([k \in 1..Len(rc) |-> rc[k].AERO_usd]),
          total_impermanent_loss_usd |->
              RatSumSeq([k \in 1..n |-> completePositions[k].impermanent_loss_usd]),
          total_profit_usd      |-> profit,
          avg_capital_deployed_usd |->
              IF n > 0 THEN Rat(totalDeposits + totalWithdrawals, 2) ELSE RatOfInt(0),
          days_active           |-> days,
          cashFlows             |-> WalletCashFlows(rc),
          apr                   |-> WalletApr(profit, totalDeposits, n, days) ]

\* calculateExcludedPositions of the comparison script: one pass setting
\* hasMint / hasBurn per token_id, then the three-way count
RECURSIVE ScanStatus(_, _)
ScanStatus(rs, positionStatus) ==
    IF rs = <<>> THEN positionStatus
    ELSE LET row == Head(rs)
             old == IF row.token_id \in DOMAIN positionStatus
                    THEN positionStatus[row.token_id]
                    ELSE [hasMint |-> FALSE, hasBurn |-> FALSE]
             new == [hasMint |-> old.hasMint \/ row.action = "mint",
                     hasBurn |-> old.hasBurn \/ row.action = "burn"]
         IN  IF row.token_id = "" THEN ScanStatus(Tail(rs), positionStatus)
             ELSE ScanStatus(Tail(rs),
                     [t \in DOMAIN positionStatus \cup {row.token_id} |->
                         IF t = row.token_id THEN new ELSE positionStatus[t]])

calculateExcludedPositions(rs) ==
    LET status == ScanStatus(rs, [t \in {} |-> FALSE])
        completeCount == Cardinality({t \in DOMAIN status : status[t].hasMint /\ status[t].hasBurn})
        preExistingCount == Cardinality({t \in DOMAIN status : status[t].hasBurn /\ ~status[t].hasMint})
        unclosedCount == Cardinality({t \in DOMAIN status : status[t].hasMint /\ ~status[t].hasBurn})
    IN  [ excluded    |-> preExistingCount + unclosedCount,
          total       |-> completeCount + preExistingCount + unclosedCount,
          preExisting |-> preExistingCount,
          unclosed    |-> unclosedCount ]

AnIdle ==
    /\ apc = "idle"
    /\ rows = <<>>
    /\ positionMap = <<>>
    /\ positionStats = <<>>
    /\ breakdown = <<>>
    /\ walletStats = <<>>
    /\ excluded = <<>>
    /\ walletXirr = <<>>

\* The analysis CSV is read
AnInit ==
    /\ apc = "group"
    /\ rows \in SeqsUpTo(AnalysisRows, 0, MaxRows)
    /\ positionMap = <<>>
    /\ positionStats = <<>>
    /\ breakdown = <<>>
    /\ walletStats = <<>>
    /\ excluded = <<>>
    /\ walletXirr = <<>>

\* Rows of a transaction_details file with rewards of every kind: on a burn
\* of the complete position t1, on a gauge_getReward attributed to t1, on a
\* gauge_getReward and on a collect without token_id, and on the mint of the
\* unclosed position t2.
ProfitRows ==
    { AnalysisRow("t1", "mint", 1, 100, 10, 2, 0, 0, 0, 2),
      AnalysisRow("t1", "burn", 3, 100, 5, 3, 0, 0, 2, 2),
      AnalysisRow("t1", "gauge_getReward", 3, 100, 0, 0, 0, 0, 3, 2),
      AnalysisRow("", "gauge_getReward", 4, 25, 0, 0, 0, 0, 1, 3),
      AnalysisRow("", "collect", 4, 25, 0, 0, 1, 0, 5, 3),
      AnalysisRow("t2", "mint", 2, 25, 8, 1, 0, 0, 7, 2) }

ProfitInit ==
    /\ apc = "group"
    /\ rows \in SeqsUpTo(ProfitRows, 0, MaxRows)
    /\ positionMap = <<>>
    /\ positionStats = <<>>
    /\ breakdown = <<>>
    /\ walletStats = <<>>
    /\ excluded = <<>>
    /\ walletXirr = <<>>

\* rows.forEach: group by token_id
GroupRows ==
    /\ apc = "group"
    /\ positionMap' = GroupByTokenId(rows)
    /\ apc' = "stats"
    /\ UNCHANGED <<rows, positionStats, breakdown, walletStats, excluded, walletXirr, lkVars, idxVars, rtVars, xVars, fnVars>>

\* for (const [tokenId, positionRows] of positionMap) positionStats.push(...)
CalcPositionStats ==
    /\ apc = "stats"
    /\ positionStats' = [k \in 1..Len(positionMap) |-> calculatePositionStats(positionMap[k].rows)]
    /\ apc' = "breakdown"
    /\ UNCHANGED <<rows, positionMap, breakdown, walletStats, excluded, walletXirr, lkVars, idxVars, rtVars, xVars, fnVars>>

\* Report position breakdown
ReportBreakdown ==
    /\ apc = "breakdown"
    /\ breakdown' = <<PositionBreakdown(positionStats)>>
    /\ apc' = "wallet"
    /\ UNCHANGED <<rows, positionMap, positionStats, walletStats, excluded, walletXirr, lkVars, idxVars, rtVars, xVars, fnVars>>

\* The wallet-level totals, XIRR cash flows and APR; the files are written
CalcWalletStats ==
    /\ apc = "wallet"
    /\ walletStats' = <<WalletStats(rows, positionStats)>>
    /\ apc' = "done"
    /\ UNCHANGED <<rows, positionMap, positionStats, breakdown, excluded, walletXirr, lkVars, idxVars, rtVars, xVars, fnVars>>

\* The comparison script reads the same transaction details
CompareExcluded ==
    /\ apc = "done"
    /\ excluded = <<>>
    /\ excluded' = <<calculateExcludedPositions(rows)>>
    /\ UNCHANGED <<apc, rows, positionMap, positionStats, breakdown, walletStats, walletXirr, lkVars, idxVars, rtVars, xVars, fnVars>>

-----------------------------------------------------------------------------
(* calculateDailyStats, the daily file and its reader in the batch comparison *)

\* The keys of dailyMap in insertion order: the dates of the rows, each once,
\* in order of first appearance
RECURSIVE DateOrder(_, _)
DateOrder(rs, seen) ==
    IF rs = <<>> THEN <<>>
    ELSE IF DateOf(Head(rs).timestamp) \in seen
         THEN DateOrder(Tail(rs), seen)
         ELSE <<DateOf(Head(rs).timestamp)>>
                  \o DateOrder(Tail(rs), seen \cup {DateOf(Head(rs).timestamp)})

\* The entry pushed for one day; capital_deployed_usd is 0 until the
\* cumulative pass
DayStats(date, dayRows) ==
    LET mints == OfAction(dayRows, "mint")
        burns == OfAction(dayRows, "burn")
        collects == OfAction(dayRows, "collect")
        fees_collected_usd == SumSeq([k \in 1..Len(collects) |-> FeeUsd(collects[k])])
        aero_rewards_collected == SumSeq([k \in 1..Len(dayRows) |-> dayRows[k].AERO_usd])
    IN  [ date                   |-> date,
          events_count           |-> Len(dayRows),
          positions_opened       |-> Len(mints),
          positions_closed       |-> Len(burns),
          deposit_usdc           |-> SumSeq([k \in 1..Len(mints) |-> mints[k].amount0_dec]),
          deposit_cbbtc          |-> SumSeq([k \in 1..Len(mints) |-> mints[k].amount1_dec]),
          deposit_value_usd      |-> SumSeq([k \in 1..Len(mints) |-> UsdValue(mints[k])]),
          withdraw_usdc          |-> SumSeq([k \in 1..Len(burns) |-> burns[k].amount0_dec]),
          withdraw_cbbtc         |-> SumSeq([k \in 1..Len(burns) |-> burns[k].amount1_dec]),
          withdraw_value_usd     |-> SumSeq([k \in 1..Len(burns) |-> UsdValue(burns[k])]),
          fees_collected_usd     |-> fees_collected_usd,
          aero_rewards_collected |-> aero_rewards_collected,
          daily_income_usd       |-> fees_collected_usd + aero_rewards_collected,
          capital_deployed_usd   |-> 0 ]

\* dailyStats.sort((a, b) => a.date.localeCompare(b.date)): stable, ascending
RECURSIVE InsertDay(_, _)
InsertDay(x, s) ==
    IF s = <<>> THEN <<x>>
    ELSE IF x.date < Head(s).date THEN <<x>> \o s
    ELSE <<Head(s)>> \o InsertDay(x, Tail(s))

RECURSIVE SortDaysFrom(_, _)
SortDaysFrom(s, k) ==
    IF k = 0 THEN <<>> ELSE InsertDay(s[k], SortDaysFrom(s, k - 1))

\* Mutant: the days stay in the order in which their dates first appear.
SortDaysOmitted(s) == s

SortDays(s) == SortDaysFrom(s, Len(s))

\* cumulativeCapital += deposit_value_usd - withdraw_value_usd, day by day
RECURSIVE CumulateCapital(_, _)
CumulateCapital(days, cumulativeCapital) ==
    IF days = <<>> THEN <<>>
    ELSE LET day == Head(days)
             c == cumulativeCapital + day.deposit_value_usd - day.withdraw_value_usd
         IN  <<[day EXCEPT !.capital_deployed_usd = c]>> \o CumulateCapital(Tail(days), c)

calculateDailyStats(rs) ==
    LET order == DateOrder(rs, {})
        dailyStats == [k \in 1..Len(order) |->
                          DayStats(order[k],
                              SelectSeq(rs, LAMBDA r : DateOf(r.timestamp) = order[k]))]
    IN  CumulateCapital(SortDays(dailyStats), 0)

\* dailySummary of main: the TOTAL row
DailySummary(dailyStats) ==
    LET Total(F(_)) == SumSeq([k \in 1..Len(dailyStats) |-> F(dailyStats[k])])
    IN  [ date                   |-> "TOTAL",
          events_count           |-> Total(LAMBDA d : d.events_count),
          positions_opened       |-> Total(LAMBDA d : d.positions_opened),
          positions_closed       |-> Total(LAMBDA d : d.positions_closed),
          deposit_usdc           |-> Total(LAMBDA d : d.deposit_usdc),
          deposit_cbbtc          |-> Total(LAMBDA d : d.deposit_cbbtc),
          deposit_value_usd      |-> Total(LAMBDA d : d.deposit_value_usd),
          withdraw_usdc          |-> Total(LAMBDA d : d.withdraw_usdc),
          withdraw_cbbtc         |-> Total(LAMBDA d : d.withdraw_cbbtc),
          withdraw_value_usd     |-> Total(LAMBDA d : d.withdraw_value_usd),
          fees_collected_usd     |-> Total(LAMBDA d : d.fees_collected_usd),
          aero_rewards_collected |-> Total(LAMBDA d : d.aero_rewards_collected),
          daily_income_usd       |-> Total(LAMBDA d : d.daily_income_usd) ]

\* The row of the daily file generateBatchComparison reads its rewards from:
\* const daily = dailyData[0]
BatchDailyRow(dailyData) == dailyData[1]

\* The rows calculateDailyStats is called with: events of three days (day 0
\* is timestamp 1, day 1 is 2..3, day 2 is 4..5), with fees and rewards on
\* the later days
DailyRows ==
    { AnalysisRow("t1", "mint", 1, 100, 10, 2, 0, 0, 0, 2),
      AnalysisRow("t1", "mint", 2, 25, 20, 1, 0, 0, 0, 2),
      AnalysisRow("t1", "collect", 3, 100, 0, 0, 1, 1, 0, 2),
      AnalysisRow("t1", "gauge_getReward", 3, 100, 0, 0, 0, 0, 3, 2),
      AnalysisRow("t1", "burn", 4, 25, 30, 1, 0, 0, 2, 2),
      AnalysisRow("", "gauge_getReward", 5, 25, 0, 0, 0, 0, 1, 3) }

DailyInit ==
    /\ fn = "calculateDailyStats"
    /\ fnArg \in SeqsUpTo(DailyRows, 0, MaxRows)
    /\ fnResult = <<>>

\* main of the analyzer: calculateDailyStats, the TOTAL row, the daily file
\* written ([...dailyStats, dailySummary])
WriteDailyFile ==
    /\ fn = "calculateDailyStats"
    /\ fnResult = <<>>
    /\ LET dailyStats == calculateDailyStats(fnArg)
       IN  fnResult' = <<[dailyStats   |-> dailyStats,
                          dailySummary |-> DailySummary(dailyStats)]>>
    /\ UNCHANGED <<fn, fnArg, lkVars, idxVars, anVars, rtVars, xVars>>

\* generateBatchComparison: the daily file is parsed and aeroRewards taken
\* from its row; a number written to the file parses to the same number
ReadDailyFile ==
    /\ fn = "calculateDailyStats"
    /\ Len(fnResult) = 1
    /\ LET dailyData == fnResult[1].dailyStats \o <<fnResult[1].dailySummary>>
           daily == BatchDailyRow(dailyData)
       IN  fnResult' = Append(fnResult, [aeroRewards |-> daily.aero_rewards_collected])
    /\ UNCHANGED <<fn, fnArg, lkVars, idxVars, anVars, rtVars, xVars>>

-----------------------------------------------------------------------------
(* Floating point *)

\* The program computes in IEEE doubles: binary, 53 significant bits, every
\* operation rounded to nearest, ties to even. The model computes in decimal
\* floating point with Precision significant digits and the same rounding: a
\* number is m * 10^e with m = 0, or 10^(Precision-1) <= |m| < 10^Precision.
\* Exponents are not bounded: there is no overflow to Infinity and no NaN.
Float(m, e) == [m |-> m, e |-> e]
FZero == Float(0, 0)

RECURSIVE Digits(_)
Digits(n) == IF n = 0 THEN 0 ELSE 1 + Digits(n \div 10)

\* The float nearest to mag * 10^e (mag >= 0); sticky tells that the exact
\* value lies above mag * 10^e by less than 10^e
RoundMagnitude(mag, e, sticky) ==
    LET k == Digits(mag)
    IN  IF mag = 0 THEN FZero
        ELSE IF k <= Precision
        THEN Float(mag * Pow10(Precision - k), e - (Precision - k))
        ELSE LET shift == k - Precision
                 unit == Pow10(shift)
                 q == mag \div unit
                 r == mag % unit
                 up == \/ 2 * r > unit
                       \/ (2 * r = unit /\ (sticky \/ q % 2 = 1))
                 q2 == IF up THEN q + 1 ELSE q
             IN  IF q2 = Pow10(Precision)
                 THEN Float(Pow10(Precision - 1), e + shift + 1)
                 ELSE Float(q2, e + shift)

Fl(n, e, sticky) ==
    LET r == RoundMagnitude(Abs(n), e, sticky)
    IN  IF n < 0 THEN Float(-r.m, r.e) ELSE r

\* Number(n) of an integer n
FromInt(n) == Fl(n, 0, FALSE)

FNeg(a) == Float(-a.m, a.e)
FAbs(a) == Float(Abs(a.m), a.e)

\* a + b: exact when the exponents are close, else the larger operand (the
\* smaller one is below a hundredth of its last digit)
FAdd(a, b) ==
    IF a.m = 0 THEN b
    ELSE IF b.m = 0 THEN a
    ELSE LET hi == IF a.e >= b.e THEN a ELSE b
             lo == IF a.e >= b.e THEN b ELSE a
             d == hi.e - lo.e
         IN  IF d > Precision + 1 THEN hi
             ELSE Fl(hi.m * Pow10(d) + lo.m, lo.e, FALSE)

FSub(a, b) == FAdd(a, FNeg(b))
FMul(a, b) == Fl(a.m * b.m, a.e + b.e, FALSE)

\* a / b for b # 0
FDiv(a, b) ==
    LET num == Abs(a.m) * Pow10(Precision + 1)
        q == num \div Abs(b.m)
        rem == num % Abs(b.m)
        r == RoundMagnitude(q, a.e - b.e - (Precision + 1), rem # 0)
    IN  IF (a.m < 0) # (b.m < 0) THEN Float(-r.m, r.e) ELSE r

FLess(a, b) == FSub(a, b).m < 0

\* The value of a float that is a whole number
FIsWhole(a) == a.e >= 0 \/ a.m % Pow10(-a.e) = 0
FWhole(a) == IF a.e >= 0 THEN a.m * Pow10(a.e) ELSE a.m \div Pow10(-a.e)

RECURSIVE FPowWhole(_, _)
FPowWhole(base, n) == IF n = 0 THEN FromInt(1) ELSE FMul(base, FPowWhole(base, n - 1))

\* Math.pow(base, -years) for a whole number of years >= 0: 1 / base^years.
\* The dates of the model are whole years apart; any other exponent is an
\* evaluation error.
FPowNeg(base, years) ==
    CASE FIsWhole(years) /\ FWhole(years) >= 0 ->
            FDiv(FromInt(1), FPowWhole(base, FWhole(years)))

-----------------------------------------------------------------------------
(* The price decoder in the program's arithmetic *)

\* 2^96 in the program. The floats of the model are decimal, so the scale of
\* the fixed-point square root is a power of ten here: like 2^96 in binary it
\* converts to a float exactly and dividing by it is exact.
Q96 == 100

\* Number(sqrtPriceX96) / Number(Q96), then num * num
priceToken1PerToken0FromSqrtPriceX96(sqrtPriceX96) ==
    LET num == FDiv(FromInt(sqrtPriceX96), FromInt(Q96))
    IN  FMul(num, num)

\* rawPrice * Math.pow(10, dec0 - dec1)
adjustForDecimals(rawPrice, dec0, dec1) ==
    FMul(rawPrice, Float(Pow10(Precision - 1), (dec0 - dec1) - (Precision - 1)))

\* calculateCbBtcPrice on the integer sqrtPriceX96, every step a float
\* operation as in the program
cbBtcPriceAsNumber(sqrtPriceX96) ==
    LET rawRatio == priceToken1PerToken0FromSqrtPriceX96(sqrtPriceX96)
        token1PerToken0 == adjustForDecimals(rawRatio, TOKEN0_DECIMALS, TOKEN1_DECIMALS)
    IN  FDiv(FromInt(1), token1PerToken0)

\* The packed square-root prices decoded: integers of one digit more than a
\* float holds, as the 96-bit values of the pool exceed the 53 bits of a double
SqrtPrices == 1000..1199

DecodeInit ==
    /\ fn = "calculateCbBtcPrice"
    /\ fnArg \in SqrtPrices
    /\ fnResult = <<>>

\* const cbBtcPrice = calculateCbBtcPrice(swapEvent.sqrtPriceX96)
CallCalculateCbBtcPrice ==
    /\ fn = "calculateCbBtcPrice"
    /\ fnResult = <<>>
    /\ fnResult' = <<cbBtcPriceAsNumber(fnArg)>>
    /\ UNCHANGED <<fn, fnArg, lkVars, idxVars, anVars, rtVars, xVars>>

-----------------------------------------------------------------------------
(* calculateXIRR *)

\* A date is a timestamp in the analyzer's time units (TicksPerDay a day)
F1 == FromInt(1)
F365 == FromInt(365)
F100 == FromInt(100)
InitialGuess == Float(Pow10(Precision - 1), -Precision)
tolerance == Float(Pow10(Precision - 1), -6 - (Precision - 1))
RateMin == FNeg(Fl(99, -2, FALSE))
RateMax == FromInt(10)

\* [...cashFlows].sort((a, b) => a.date.getTime() - b.date.getTime()): stable
RECURSIVE InsertByDate(_, _)
InsertByDate(x, s) ==
    IF s = <<>> THEN <<x>>
    ELSE IF x.date - Head(s).date < 0 THEN <<x>> \o s
    ELSE <<Head(s)>> \o InsertByDate(x, Tail(s))

RECURSIVE SortByDateFrom(_, _)
SortByDateFrom(s, k) ==
    IF k = 0 THEN <<>> ELSE InsertByDate(s[k], SortByDateFrom(s, k - 1))

\* Mutant: the flows are taken in the caller's order.
SortByDateOmitted(s) == s

SortByDate(s) == SortByDateFrom(s, Len(s))

hasOutflow(s) == \E j \in 1..Len(s) : s[j].amount < 0
hasInflow(s) == \E j \in 1..Len(s) : s[j].amount > 0

\* Mutant: the inflow is not asked for.
XirrAcceptsNoInflow(cf) == Len(cf) >= 2 /\ hasOutflow(SortByDate(cf))

\* The two early returns of calculateXIRR are not taken
XirrAccepts(cf) ==
    Len(cf) >= 2 /\ hasOutflow(SortByDate(cf)) /\ hasInflow(SortByDate(cf))

\* (cf.date.getTime() - firstDate) / (1000 * 60 * 60 * 24)
daysFromStart(s) ==
    [j \in 1..Len(s) |-> FDiv(FromInt(s[j].date - s[1].date), FromInt(TicksPerDay))]

\* The inner loop over j: npv and dnpv accumulated in the order of sorted
RECURSIVE NpvFrom(_, _, _, _, _)
NpvFrom(s, days, onePlusRate, j, acc) ==
    IF j > Len(s) THEN acc
    ELSE LET years == FDiv(days[j], F365)
             amount == FromInt(s[j].amount)
             discountFactor == FPowNeg(onePlusRate, years)
             term == FMul(amount, discountFactor)
             dterm == FDiv(FMul(FMul(FNeg(years), amount), discountFactor), onePlusRate)
         IN  NpvFrom(s, days, onePlusRate, j + 1,
                [npv |-> FAdd(acc.npv, term), dnpv |-> FAdd(acc.dnpv, dterm)])

NpvAt(s, r) ==
    LET days == daysFromStart(s)
        onePlusRate == FAdd(F1, r)
    IN  NpvFrom(s, days, onePlusRate, 1, [npv |-> FZero, dnpv |-> FZero])

\* Mutant: the sign of the value is not dropped.
ConvergedSigned(npv) == FLess(npv, tolerance)

\* Math.abs(npv) < tolerance
Converged(npv) == FLess(FAbs(npv), tolerance)

\* Mutant: the rate is capped from below only.
ClampLowOnly(r) == IF FLess(r, RateMin) THEN RateMin ELSE r

\* if (rate < -0.99) rate = -0.99; if (rate > 10) rate = 10;
Clamp(r) ==
    IF FLess(r, RateMin) THEN RateMin
    ELSE IF FLess(RateMax, r) THEN RateMax
    ELSE r

\* Mutant: the first guess is 0.
InitialRateZero == FZero

\* let rate = 0.1
InitialRate == InitialGuess

\* rate = rate - npv / dnpv, then the clamp
NewtonUpdate(r, at) == Clamp(FSub(r, FDiv(at.npv, at.dnpv)))

\* One pass through the body of the Newton-Raphson loop at rate r: the
\* function returns (returned = <<result>>, the result none or one percentage)
\* or goes on with the updated rate (returned = <<>>)
XirrIteration(s, r) ==
    LET at == NpvAt(s, r)
    IN  IF Converged(at.npv) THEN [rate |-> r, returned |-> << <<FMul(r, F100)>> >>]
        ELSE IF at.dnpv.m = 0 THEN [rate |-> r, returned |-> << <<>> >>]
        ELSE [rate |-> NewtonUpdate(r, at), returned |-> <<>>]

\* n passes through the loop body from rate r, ended by the first return; the
\* passes are taken half by half
RECURSIVE XirrIterations(_, _, _)
XirrIterations(s, r, n) ==
    IF n = 0 THEN [rate |-> r, returned |-> <<>>]
    ELSE IF n = 1 THEN XirrIteration(s, r)
    ELSE LET half == XirrIterations(s, r, n \div 2)
         IN  IF half.returned # <<>> THEN half
             ELSE XirrIterations(s, half.rate, n - n \div 2)

\* The Newton-Raphson loop from iteration it on; the result is none (<<>>)
\* or one percentage
XirrLoop(s, r, it) ==
    LET end == XirrIterations(s, r, maxIterations - it)
    IN  IF end.returned = <<>> THEN <<>> ELSE end.returned[1]

calculateXIRR(cf) ==
    IF XirrAccepts(cf) THEN XirrLoop(SortByDate(cf), InitialRate, 0) ELSE <<>>

\* The cash flows calculateXIRR is called with: a deposit and a small return
\* at the first date, a return and a small deposit one year later
XirrFlows ==
    { CashFlow(0, -1000), CashFlow(0, 6),
      CashFlow(365 * TicksPerDay, 1100), CashFlow(365 * TicksPerDay, -10) }

XInit ==
    /\ xpc = "call"
    /\ cashFlows \in SeqsUpTo(XirrFlows, 0, MaxFlows)
    /\ sorted = <<>>
    /\ rate = <<>>
    /\ iteration = 0
    /\ sums = <<>>
    /\ npvEvals = 0
    /\ xirr = <<>>

\* Cash flows of one date: amounts that cancel, amounts that do not, and an
\* amount small enough to be lost when added to the large ones
SameDateFlows == {CashFlow(0, a) : a \in {-1000, 1000, 6, -6, 4}}

\* calculateXIRR called with the flows above or with flows of one date
SameDateInit ==
    /\ xpc = "call"
    /\ cashFlows \in SeqsUpTo(XirrFlows, 0, MaxFlows) \cup SeqsUpTo(SameDateFlows, 0, MaxFlows)
    /\ sorted = <<>>
    /\ rate = <<>>
    /\ iteration = 0
    /\ sums = <<>>
    /\ npvEvals = 0
    /\ xirr = <<>>

\* if (cashFlows.length < 2) return null; if (!hasOutflow || !hasInflow) return null
XirrReject ==
    /\ xpc = "call"
    /\ ~XirrAccepts(cashFlows)
    /\ xirr' = << <<>> >>
    /\ xpc' = "returned"
    /\ UNCHANGED <<cashFlows, sorted, rate, iteration, sums, npvEvals,
                   lkVars, idxVars, anVars, rtVars, fnVars>>

\* sorted, firstDate, daysFromStart, rate = 0.1
XirrStart ==
    /\ xpc = "call"
    /\ XirrAccepts(cashFlows)
    /\ sorted' = SortByDate(cashFlows)
    /\ rate' = <<InitialRate>>
    /\ iteration' = 0
    /\ xpc' = "loop"
    /\ UNCHANGED <<cashFlows, sums, npvEvals, xirr, lkVars, idxVars, anVars, rtVars, fnVars>>

\* The inner loop of an iteration: npv and dnpv at the current rate
XirrEvaluate ==
    /\ xpc = "loop"
    /\ iteration < maxIterations
    /\ sums = <<>>
    /\ sums' = <<NpvAt(sorted, rate[1])>>
    /\ npvEvals' = npvEvals + 1
    /\ UNCHANGED <<xpc, cashFlows, sorted, rate, iteration, xirr,
                   lkVars, idxVars, anVars, rtVars, fnVars>>

\* if (Math.abs(npv) < tolerance) return rate * 100
XirrConverge ==
    /\ xpc = "loop"
    /\ sums # <<>>
    /\ Converged(sums[1].npv)
    /\ xirr' = << <<FMul(rate[1], F100)>> >>
    /\ xpc' = "returned"
    /\ UNCHANGED <<cashFlows, sorted, rate, iteration, sums, npvEvals,
                   lkVars, idxVars, anVars, rtVars, fnVars>>

\* Mutant: the derivative is tested before the convergence.
XirrZeroDerivativeFirst ==
    /\ xpc = "loop"
    /\ sums # <<>>
    /\ sums[1].dnpv.m = 0
    /\ xirr' = << <<>> >>
    /\ xpc' = "returned"
    /\ UNCHANGED <<cashFlows, sorted, rate, iteration, sums, npvEvals,
                   lkVars, idxVars, anVars, rtVars, fnVars>>

\* if (dnpv === 0) return null
XirrZeroDerivative ==
    /\ xpc = "loop"
    /\ sums # <<>>
    /\ ~Converged(sums[1].npv)
    /\ sums[1].dnpv.m = 0
    /\ xirr' = << <<>> >>
    /\ xpc' = "returned"
    /\ UNCHANGED <<cashFlows, sorted, rate, iteration, sums, npvEvals,
                   lkVars, idxVars, anVars, rtVars, fnVars>>

\* The Newton-Raphson update and the clamp; the next iteration
XirrStep ==
    /\ xpc = "loop"
    /\ sums # <<>>
    /\ ~Converged(sums[1].npv)
    /\ sums[1].dnpv.m # 0
    /\ rate' = <<NewtonUpdate(rate[1], sums[1])>>
    /\ iteration' = iteration + 1
    /\ sums' = <<>>
    /\ UNCHANGED <<xpc, cashFlows, sorted, npvEvals, xirr, lkVars, idxVars, anVars, rtVars, fnVars>>

\* The loop has run maxIterations times: return null
XirrExhausted ==
    /\ xpc = "loop"
    /\ iteration >= maxIterations
    /\ xirr' = << <<>> >>
    /\ xpc' = "returned"
    /\ UNCHANGED <<cashFlows, sorted, rate, iteration, sums, npvEvals,
                   lkVars, idxVars, anVars, rtVars, fnVars>>

\* The rows of an analysis whose wallet XIRR is evaluated: position t1 minted
\* at day 0 and burned a year later, position t2 minted at day 0 and burned
\* two years later.
\* Any of the rows can be missing from the file, or be there more than once.
WalletRows ==
    { AnalysisRow("t1", "mint", 0, 100, 1000, 0, 0, 0, 0, 2),
      AnalysisRow("t1", "burn", 365 * TicksPerDay, 100, 1100, 0, 0, 0, 0, 2),
      AnalysisRow("t2", "mint", 0, 100, 500, 0, 0, 0, 0, 2),
      AnalysisRow("t2", "burn", 730 * TicksPerDay, 100, 600, 0, 0, 0, 0, 2) }

WalletInit ==
    /\ apc = "group"
    /\ rows \in SeqsUpTo(WalletRows, 0, MaxWalletRows)
    /\ positionMap = <<>>
    /\ positionStats = <<>>
    /\ breakdown = <<>>
    /\ walletStats = <<>>
    /\ excluded = <<>>
    /\ walletXirr = <<>>

\* The wallet-level totals with walletStats.xirr = calculateXIRR(walletCashFlows)
\* evaluated
CalcWalletXirr ==
    /\ apc = "wallet"
    /\ walletStats' = <<WalletStats(rows, positionStats)>>
    /\ walletXirr' =
          <<calculateXIRR(WalletCashFlows(RowsFromCompletePositions(rows, positionStats)))>>
    /\ apc' = "done"
    /\ UNCHANGED <<rows, positionMap, positionStats, breakdown, excluded,
                   lkVars, idxVars, rtVars, xVars, fnVars>>

-----------------------------------------------------------------------------
(* Specifications *)

\* The two input files of index.ts
InputFiles == {"actions.csv", "earnings_per_action.csv"}

FnIdle ==
    /\ fn = "none"
    /\ fnArg = <<>>
    /\ fnResult = <<>>

RtIdle ==
    /\ attempt = 0
    /\ calls = 0
    /\ waits = <<>>
    /\ response = "none"
    /\ callRange = <<>>
    /\ exitCode = <<>>
    /\ inputFiles = InputFiles
    /\ requested = <<>>

XIdle ==
    /\ xpc = "idle"
    /\ cashFlows = <<>>
    /\ sorted = <<>>
    /\ rate = <<>>
    /\ iteration = 0
    /\ sums = <<>>
    /\ npvEvals = 0
    /\ xirr = <<>>

InitLookup == LkInit /\ IdxIdle /\ AnIdle /\ RtIdle /\ XIdle /\ FnIdle
NextLookup == LookupBefore \/ LookupAfter
SpecLookup == InitLookup /\ [][NextLookup]_vars

InitAnalyze == LkIdle /\ IdxIdle /\ AnInit /\ RtIdle /\ XIdle /\ FnIdle
NextAnalyze ==
    GroupRows \/ CalcPositionStats \/ ReportBreakdown \/ CalcWalletStats \/ CompareExcluded
SpecAnalyze == InitAnalyze /\ [][NextAnalyze]_vars

InitIndex == LkIdle /\ IdxInit /\ AnIdle /\ RtIdle /\ XIdle /\ FnIdle
NextIndex == FetchChunk \/ SortAndReturn \/ ValueAction \/ FailAction \/ WriteOutput
SpecIndex == InitIndex /\ [][NextIndex]_vars

InitXirr == LkIdle /\ IdxIdle /\ AnIdle /\ RtIdle /\ XInit /\ FnIdle
NextXirr ==
    \/ XirrReject \/ XirrStart \/ XirrEvaluate \/ XirrConverge
    \/ XirrZeroDerivative \/ XirrStep \/ XirrExhausted
SpecXirr == InitXirr /\ [][NextXirr]_vars

\* calculateXIRR with lists of one date among its inputs
InitSameDate == LkIdle /\ IdxIdle /\ AnIdle /\ RtIdle /\ SameDateInit /\ FnIdle
SpecSameDate == InitSameDate /\ [][NextXirr]_vars

\* ENABLED <<NextXirr>>_vars, written out: until the function has returned,
\* one of its steps can be taken
XirrEnabled == xpc # "returned"

\* calculateXIRR is straight-line synchronous code: a statement that can run
\* does run. This is WF_vars(NextXirr) with its enabling condition spelled out.
XirrFairness == []<>~XirrEnabled \/ []<><<NextXirr>>_vars

\* calculateXIRR runs to its return: every step of the function is taken
SpecXirrLive == InitXirr /\ [][NextXirr]_vars /\ XirrFairness

\* The actions of the runs that exercise the chunk loop: with the buffer of
\* 50000 blocks on each side the ranges are [0, 50100], [0, 100000],
\* [9999, 109999] and, for blocks 50000 and 59999 together, [0, 109999],
\* which is 11 full chunks
FetchRows == {ActionRow("burn", <<b, 1>>) : b \in {100, 50000, 59999}}

FetchInit ==
    /\ ipc = "fetch"
    /\ chain \in {<<>>, InferChain}
    /\ filteredActions \in SeqsUpTo(FetchRows, 0, MaxActions)
    /\ earnings = EarningsFile
    /\ aeroPriceMap = AeroPrices
    /\ start = FromBlock(filteredActions)
    /\ swaps = <<>>
    /\ swapsCache = <<>>
    /\ i = 1
    /\ outputRows = <<>>
    /\ failed = <<>>

\* fetchAllSwapsInRange with a provider that can fail
InitFetch == LkIdle /\ FetchInit /\ AnIdle /\ RtIdle /\ XIdle /\ FnIdle
NextFetch == FetchChunk \/ RateLimitRetry \/ FetchThrow \/ SortAndReturn
SpecFetch == InitFetch /\ [][NextFetch]_vars

\* main from its first statement, with any of the input files present
StartInit ==
    /\ ipc = "start"
    /\ chain = InferChain
    /\ filteredActions = <<>>
    /\ earnings = <<>>
    /\ aeroPriceMap = <<>>
    /\ start = 0
    /\ swaps = <<>>
    /\ swapsCache = <<>>
    /\ i = 1
    /\ outputRows = <<>>
    /\ failed = <<>>
    /\ attempt = 0
    /\ calls = 0
    /\ waits = <<>>
    /\ response = "none"
    /\ callRange = <<>>
    /\ exitCode = <<>>
    /\ inputFiles \in SUBSET InputFiles
    /\ requested = <<>>

InitStart == LkIdle /\ StartInit /\ AnIdle /\ XIdle /\ FnIdle
NextStart ==
    \/ AbortMissingInput \/ ReadInputs
    \/ FetchChunk \/ RateLimitRetry \/ FetchThrow \/ SortAndReturn
    \/ ValueAction \/ FailAction \/ ThrowAction \/ WriteOutput
SpecStart == InitStart /\ [][NextStart]_vars

\* The entries a price map is built from, and the action times looked up
PriceEntries == {[time |-> tm, price |-> p] : tm \in {1, 3, 5}, p \in {2, 3}}
PriceTargets == 0..6

\* A Map holds one entry for a key: the times of a price map are distinct
PriceMaps ==
    {m \in SeqsUpTo(PriceEntries, 0, MaxPrices) :
        \A a, b \in 1..Len(m) : a # b => m[a].time # m[b].time}

PriceInit ==
    /\ fn = "getAeroPrice"
    /\ fnArg \in {[map |-> m, timestamp |-> ts] : m \in PriceMaps, ts \in PriceTargets}
    /\ fnResult = <<>>

\* const aeroPrice = getAeroPrice(aeroPriceMap, action.timestamp)
CallGetAeroPrice ==
    /\ fn = "getAeroPrice"
    /\ fnResult = <<>>
    /\ fnResult' = <<getAeroPrice(fnArg.map, fnArg.timestamp)>>
    /\ UNCHANGED <<fn, fnArg, lkVars, idxVars, anVars, rtVars, xVars>>

\* getAeroPrice on its own
InitPrice == LkIdle /\ IdxIdle /\ AnIdle /\ RtIdle /\ XIdle /\ PriceInit
NextPrice == CallGetAeroPrice
SpecPrice == InitPrice /\ [][NextPrice]_vars

\* calculateCbBtcPrice on its own
InitDecode == LkIdle /\ IdxIdle /\ AnIdle /\ RtIdle /\ XIdle /\ DecodeInit
NextDecode == CallCalculateCbBtcPrice
SpecDecode == InitDecode /\ [][NextDecode]_vars

\* The analyzer's main on rows with rewards of every kind
InitProfit == LkIdle /\ IdxIdle /\ ProfitInit /\ RtIdle /\ XIdle /\ FnIdle
SpecProfit == InitProfit /\ [][NextAnalyze]_vars

\* The daily statistics, their file and the batch comparison's reading of it
InitDaily == LkIdle /\ IdxIdle /\ AnIdle /\ RtIdle /\ XIdle /\ DailyInit
NextDaily == WriteDailyFile \/ ReadDailyFile
SpecDaily == InitDaily /\ [][NextDaily]_vars

\* The analyzer's main with the wallet XIRR evaluated
InitWallet == LkIdle /\ IdxIdle /\ WalletInit /\ RtIdle /\ XIdle /\ FnIdle
NextWallet == GroupRows \/ CalcPositionStats \/ ReportBreakdown \/ CalcWalletXirr
SpecWallet == InitWallet /\ [][NextWallet]_vars

\* The run with a provider that can fail and iterations that can throw
RunInit ==
    /\ ipc = "fetch"
    /\ chain = InferChain
    /\ filteredActions \in SeqsUpTo(ActionRows, 0, MaxActions)
    /\ earnings = EarningsFile
    /\ aeroPriceMap = AeroPrices
    /\ start = FromBlock(filteredActions)
    /\ swaps = <<>>
    /\ swapsCache = <<>>
    /\ i = 1
    /\ outputRows = <<>>
    /\ failed = <<>>

InitRun == LkIdle /\ RunInit /\ AnIdle /\ RtIdle /\ XIdle /\ FnIdle
NextRun ==
    \/ FetchChunk \/ RateLimitRetry \/ FetchThrow \/ SortAndReturn
    \/ ValueAction \/ FailAction \/ ThrowAction \/ WriteOutput
SpecRun == InitRun /\ [][NextRun]_vars

\* The valuation loop on longer action lists, the swaps already fetched
InitInfer == LkIdle /\ InferInit /\ AnIdle /\ RtIdle /\ XIdle /\ FnIdle
NextInfer == ValueAction \/ FailAction \/ WriteOutput
SpecInfer == InitInfer /\ [][NextInfer]_vars

-----------------------------------------------------------------------------
(* Properties of the swap price index and the valuation loop *)

KeyLess(b1, i1, b2, i2) == b1 < b2 \/ (b1 = b2 /\ i1 < i2)

\* C1: every output row of a mint is matched to a swap whose key
\* (swap_block, swap_index) is strictly less than the action's key
\* (block, block_index); every output row of a burn, collect or
\* gauge_getReward is matched to a swap whose key is strictly greater.
C1_ResolvedSwapSide ==
    \A k \in 1..Len(outputRows) :
        LET r == outputRows[k]
        IN  /\ r.action = "mint" =>
                 KeyLess(r.swap_block, r.swap_index, r.block, r.block_index)
            /\ r.action \in {"burn", "collect", "gauge_getReward"} =>
                 KeyLess(r.block, r.block_index, r.swap_block, r.swap_index)

\* The run ended with a resolved mint and a resolved burn, both in a block
\* that holds a swap on either side of them.
C1_Witness ==
    /\ ipc = "done"
    /\ \E k \in 1..Len(outputRows) :
          /\ outputRows[k].action = "mint"
          /\ outputRows[k].swap_block = outputRows[k].block
    /\ \E k \in 1..Len(outputRows) :
          /\ outputRows[k].action = "burn"
          /\ outputRows[k].swap_block = outputRows[k].block

\* The swaps of a list whose key is strictly less / greater than the query
SmallerThanQuery(sw, block, logIndex) ==
    {k \in 1..Len(sw) : KeyLess(sw[k].blockNumber, sw[k].index, block, logIndex)}
GreaterThanQuery(sw, block, logIndex) ==
    {k \in 1..Len(sw) : KeyLess(block, logIndex, sw[k].blockNumber, sw[k].index)}

\* C2: on a sorted list, findClosestSwapBeforeFromCache returns none exactly
\* when no swap has a key strictly less than the query, and otherwise a swap
\* of strictly smaller key that no swap of strictly smaller key exceeds: the
\* result of scanning all swaps.
C2_BeforeIsGreatestSmaller ==
    "before" \in lkDone =>
        LET S == SmallerThanQuery(lkSwaps, lkBlock, lkIndex)
        IN  /\ (S = {}) <=> (lkBefore = <<>>)
            /\ S # {} =>
                 /\ \E k \in S : lkBefore = <<lkSwaps[k]>>
                 /\ \A j \in S : ~KeyLess(lkBefore[1].blockNumber, lkBefore[1].index,
                                          lkSwaps[j].blockNumber, lkSwaps[j].index)

\* The query key is the key of the first swap (none is returned), and also a
\* case where the list holds the query key and an earlier swap is returned.
C2_Witness ==
    /\ "before" \in lkDone
    /\ Len(lkSwaps) >= 2
    /\ \/ /\ lkSwaps[1].blockNumber = lkBlock
          /\ lkSwaps[1].index = lkIndex
          /\ lkBefore = <<>>
       \/ /\ lkSwaps[2].blockNumber = lkBlock
          /\ lkSwaps[2].index = lkIndex
          /\ lkBefore = <<lkSwaps[1]>>
          /\ lkSwaps[1] # lkSwaps[2]

\* C3: on a sorted list, findClosestSwapAfterFromCache returns none exactly
\* when no swap has a key strictly greater than the query, and otherwise a
\* swap of strictly greater key that is not above any other such swap; it is
\* never the swap whose key equals the query key.
C3_AfterIsSmallestGreater ==
    "after" \in lkDone =>
        LET S == GreaterThanQuery(lkSwaps, lkBlock, lkIndex)
        IN  /\ (S = {}) <=> (lkAfter = <<>>)
            /\ S # {} =>
                 /\ \E k \in S : lkAfter = <<lkSwaps[k]>>
                 /\ \A j \in S : ~KeyLess(lkSwaps[j].blockNumber, lkSwaps[j].index,
                                          lkAfter[1].blockNumber, lkAfter[1].index)
            /\ lkAfter # <<>> =>
                 ~(lkAfter[1].blockNumber = lkBlock /\ lkAfter[1].index = lkIndex)

\* The list holds the query key itself and a later swap, which is returned.
C3_Witness ==
    /\ "after" \in lkDone
    /\ Len(lkSwaps) >= 2
    /\ lkSwaps[1].blockNumber = lkBlock
    /\ lkSwaps[1].index = lkIndex
    /\ lkAfter # <<>>
    /\ lkAfter[1] # lkSwaps[1]

\* How often a log occurs in a list
Occurrences(sw, log) == Cardinality({k \in 1..Len(sw) : sw[k] = log})

\* C4 as stated: the list returned by fetchAllSwapsInRange is strictly
\* increasing in (blockNumber, index), so no key occurs twice.
C4_StrictlyIncreasing ==
    ipc \in {"value", "done"} =>
        \A k \in 1..(Len(swapsCache) - 1) :
            KeyLess(swapsCache[k].blockNumber, swapsCache[k].index,
                    swapsCache[k + 1].blockNumber, swapsCache[k + 1].index)

\* C4 (amended): the list returned by fetchAllSwapsInRange is sorted ascending
\* (non-decreasing) in (blockNumber, index) and holds every log the provider
\* returned as many times as it was returned: nothing is removed.
C4_SortedKeepsAll ==
    ipc \in {"value", "done"} =>
        /\ \A k \in 1..(Len(swapsCache) - 1) :
              ~KeyLess(swapsCache[k + 1].blockNumber, swapsCache[k + 1].index,
                       swapsCache[k].blockNumber, swapsCache[k].index)
        /\ Len(swapsCache) = Len(swaps)
        /\ \A log \in ChainLogs : Occurrences(swapsCache, log) = Occurrences(swaps, log)

\* The provider returned one log twice and both copies are in the list.
C4_Witness ==
    /\ ipc = "value"
    /\ Len(swapsCache) >= 2
    /\ swapsCache[1] = swapsCache[2]

-----------------------------------------------------------------------------
(* Properties of the analyzer *)

\* The position ids of the analyzed rows, and what a position's rows hold
PositionIds == {rows[k].token_id : k \in 1..Len(rows)} \ {""}
PositionHas(t, kind) ==
    \E k \in 1..Len(rows) : rows[k].token_id = t /\ rows[k].action = kind

\* Sums over the rows of one action kind, in file order
SumUsdOf(rs, kind) ==
    SumSeq([k \in 1..Len(OfAction(rs, kind)) |-> UsdValue(OfAction(rs, kind)[k])])
SumAmount0Of(rs, kind) ==
    SumSeq([k \in 1..Len(OfAction(rs, kind)) |-> OfAction(rs, kind)[k].amount0_dec])
SumAmount1Of(rs, kind) ==
    SumSeq([k \in 1..Len(OfAction(rs, kind)) |-> OfAction(rs, kind)[k].amount1_dec])

\* C5: the analyzer counts a position Complete iff its rows hold a mint and a
\* burn, PreExisting iff a burn and no mint, Unclosed iff a mint and no burn;
\* calculateExcludedPositions gives the same three counts for the same rows.
C5_LifecycleCounts ==
    /\ breakdown # <<>> =>
          /\ breakdown[1].completePositionsCount =
                Cardinality({t \in PositionIds : PositionHas(t, "mint") /\ PositionHas(t, "burn")})
          /\ breakdown[1].preExistingCount =
                Cardinality({t \in PositionIds : PositionHas(t, "burn") /\ ~PositionHas(t, "mint")})
          /\ breakdown[1].unclosedPositionsCount =
                Cardinality({t \in PositionIds : PositionHas(t, "mint") /\ ~PositionHas(t, "burn")})
    /\ excluded # <<>> =>
          /\ excluded[1].preExisting = breakdown[1].preExistingCount
          /\ excluded[1].unclosed = breakdown[1].unclosedPositionsCount
          /\ excluded[1].total - excluded[1].excluded = breakdown[1].completePositionsCount

\* Both programs counted a file with one complete position, one position that
\* is mint-only or burn-only, and the comparison script has run.
C5_Witness ==
    /\ excluded # <<>>
    /\ breakdown[1].completePositionsCount = 1
    /\ breakdown[1].excludedCount = 1
    /\ Cardinality(PositionIds) = 2

\* The rows of Complete positions and the rows with no token_id
CompleteOrNoTokenRows ==
    SelectSeq(rows, LAMBDA r :
        \/ r.token_id = ""
        \/ (PositionHas(r.token_id, "mint") /\ PositionHas(r.token_id, "burn")))

\* The wallet totals the analyzer computes from a file of rows
AnalyzeWallet(rs) ==
    LET pm == GroupByTokenId(rs)
    IN  WalletStats(rs, [k \in 1..Len(pm) |-> calculatePositionStats(pm[k].rows)])

\* C6: every wallet-level total is what the analyzer computes from the rows of
\* Complete positions and the rows with no token_id alone: the rows of the
\* other positions change none of them.
C6_WalletFromCompleteOnly ==
    walletStats # <<>> => walletStats[1] = AnalyzeWallet(CompleteOrNoTokenRows)

\* The wallet totals exist, a Complete position is counted, and the file holds
\* a row of a position that is not Complete.
C6_Witness ==
    /\ walletStats # <<>>
    /\ walletStats[1].positions_count = 1
    /\ Len(CompleteOrNoTokenRows) < Len(rows)

\* C7 as stated: for every Complete position,
\* profit = impermanentLoss + (hodlValueAtExit - hodlValueAtDeposit) + fees + rewards.
C7_ProfitDecomposition ==
    \A k \in 1..Len(positionStats) :
        LET p == positionStats[k]
        IN  IsComplete(p) =>
                RatEq(RatOfInt(p.profit_usd),
                      RatAdd(p.impermanent_loss_usd,
                             RatAdd(RatSub(p.hodlValueAtExitUSD, RatOfInt(p.total_deposit_usd)),
                                    RatOfInt(p.total_fees_usd + p.total_aero_rewards_usd))))

\* C8: a position with a mint and a burn has profit_usd = (sum of amount0_usd +
\* amount1_usd over its burns) - (the same sum over its mints) + its reward USD
\* total; a position lacking a mint or a burn has profit_usd = 0.
C8_ProfitFormula ==
    \A k \in 1..Len(positionStats) :
        LET p == positionStats[k]
            rs == positionMap[k].rows
        IN  IF PositionHas(positionMap[k].token_id, "mint")
               /\ PositionHas(positionMap[k].token_id, "burn")
            THEN p.profit_usd =
                   SumUsdOf(rs, "burn") - SumUsdOf(rs, "mint") + p.total_aero_rewards_usd
            ELSE p.profit_usd = 0

\* The statistics hold a Complete position with a non-zero reward total and a
\* position that lacks a mint or a burn.
C8_Witness ==
    /\ Len(positionStats) = 2
    /\ \E k \in 1..2 :
          /\ IsComplete(positionStats[k])
          /\ positionStats[k].total_aero_rewards_usd > 0
    /\ \E k \in 1..2 : ~IsComplete(positionStats[k])

\* The earliest burn of a position: the first in file order at the least timestamp
EarliestBurn(rs) ==
    LET burns == OfAction(rs, "burn")
    IN  burns[CHOOSE k \in 1..Len(burns) :
                  /\ \A j \in 1..Len(burns) : burns[k].timestamp <= burns[j].timestamp
                  /\ \A j \in 1..(k - 1) : burns[j].timestamp > burns[k].timestamp]

\* C9: for every Complete position, impermanent_loss_usd = withdraw_usd -
\* (deposited token-A + deposited token-B * avgExitPrice), with avgExitPrice =
\* (USD withdrawn over all burns - token-A withdrawn) / token-B withdrawn when
\* token-B withdrawn > 0, and the reference price of the earliest burn when it
\* is 0.
C9_ImpermanentLoss ==
    \A k \in 1..Len(positionStats) :
        LET p == positionStats[k]
            rs == positionMap[k].rows
            w == SumUsdOf(rs, "burn")
            wA == SumAmount0Of(rs, "burn")
            wB == SumAmount1Of(rs, "burn")
            dA == SumAmount0Of(rs, "mint")
            dB == SumAmount1Of(rs, "mint")
        IN  IsComplete(p) =>
              /\ p.impermanent_loss_usd.d > 0
              /\ IF wB > 0
                 THEN RatEq(p.impermanent_loss_usd, Rat((w - dA) * wB - dB * (w - wA), wB))
                 ELSE RatEq(p.impermanent_loss_usd,
                            RatOfInt(w - (dA + dB * EarliestBurn(rs).cbBTC_price)))

\* A Complete position with two burns at different prices, both withdrawing
\* token-B, given latest first in the file.
C9_Witness ==
    \E k \in 1..Len(positionStats) :
        LET burns == OfAction(positionMap[k].rows, "burn")
        IN  /\ IsComplete(positionStats[k])
            /\ Len(burns) = 2
            /\ burns[1].cbBTC_price # burns[2].cbBTC_price
            /\ burns[1].amount1_dec > 0
            /\ burns[2].amount1_dec > 0
            /\ burns[1].timestamp > burns[2].timestamp

\* C10 as stated: a position's reward total is the sum of AERO_usd over all rows
\* that carry its token_id, gauge_getReward rows included.
C10_RewardsOverAllRows ==
    \A k \in 1..Len(positionStats) :
        positionStats[k].total_aero_rewards_usd =
            SumSeq([j \in 1..Len(positionMap[k].rows) |-> positionMap[k].rows[j].AERO_usd])

\* C10 (amended): a position's reward total is the sum of AERO_usd over its
\* rows whose action is not gauge_getReward; every gauge_getReward row is left
\* out, also one that carries the position's token_id.
C10_RewardsExcludeGetReward ==
    \A k \in 1..Len(positionStats) :
        LET rs == positionMap[k].rows
            counted == {j \in 1..Len(rs) : rs[j].action \in {"mint", "burn", "collect"}}
        IN  positionStats[k].total_aero_rewards_usd =
                SumSeq([j \in 1..Len(rs) |-> IF j \in counted THEN rs[j].AERO_usd ELSE 0])

\* A position with a rewarded burn and a rewarded gauge_getReward row of its
\* token_id.
C10_Witness ==
    \E k \in 1..Len(positionStats) :
        LET rs == positionMap[k].rows
        IN  /\ IsComplete(positionStats[k])
            /\ \E j \in 1..Len(rs) : rs[j].action = "gauge_getReward" /\ rs[j].AERO_usd > 0
            /\ \E j \in 1..Len(rs) : rs[j].action = "burn" /\ rs[j].AERO_usd > 0

-----------------------------------------------------------------------------
(* Properties of the valuation loop: inference, failures, retries *)

\* The indices of the first n filtered actions whose swap lookup finds a swap,
\* in order: output row k is the row of action ResolvedUpTo(n)[k] when no
\* iteration has thrown.
RECURSIVE ResolvedUpTo(_)
ResolvedUpTo(n) ==
    IF n = 0 THEN <<>>
    ELSE IF findSwapForAction(swapsCache, filteredActions[n]) # <<>>
         THEN Append(ResolvedUpTo(n - 1), n)
         ELSE ResolvedUpTo(n - 1)

\* The offsets within +-5 of idx whose record has the timestamp of record idx
\* and a token_id
QualifyingOffsets(idx) ==
    {o \in (-5..5) \ {0} :
        /\ idx + o >= 1
        /\ idx + o <= Len(filteredActions)
        /\ filteredActions[idx + o].timestamp = filteredActions[idx].timestamp
        /\ filteredActions[idx + o].token_id # ""}

\* The output rows of gauge_getReward actions that carry no token_id, as
\* pairs <<output row, index of the action>>
InferredRows ==
    LET resolved == ResolvedUpTo(i - 1)
    IN  {<<outputRows[k], resolved[k]>> : k \in
            {j \in 1..Len(outputRows) :
                /\ filteredActions[resolved[j]].action = "gauge_getReward"
                /\ filteredActions[resolved[j]].token_id = ""}}

\* C11 (as stated): the token_id written for a gauge_getReward action with no
\* token_id is that of a qualifying record at the smallest |offset|, and is
\* empty when no record within +-5 qualifies.
C11_NearestNeighbour ==
    \A p \in InferredRows :
        LET Q == QualifyingOffsets(p[2])
        IN  IF Q = {} THEN p[1].token_id = ""
            ELSE \E o \in Q :
                    /\ \A o2 \in Q : Abs(o) <= Abs(o2)
                    /\ p[1].token_id = filteredActions[p[2] + o].token_id

\* C11 (amended): the token_id written is that of the qualifying record at
\* the smallest offset in the scan order -5, ..., -1, 1, ..., 5, that is the
\* qualifying record of lowest index in the window; it is empty when no
\* record within +-5 qualifies.
C11_FirstInScanOrder ==
    \A p \in InferredRows :
        LET Q == QualifyingOffsets(p[2])
        IN  IF Q = {} THEN p[1].token_id = ""
            ELSE \E o \in Q :
                    /\ \A o2 \in Q : o <= o2
                    /\ p[1].token_id = filteredActions[p[2] + o].token_id

\* A reward row took its token_id from the record five places before it
\* although a record of another position is right behind it.
C11_Witness ==
    /\ ipc = "done"
    /\ \E p \in InferredRows :
          /\ -5 \in QualifyingOffsets(p[2])
          /\ 1 \in QualifyingOffsets(p[2])
          /\ p[1].token_id = filteredActions[p[2] - 5].token_id
          /\ p[1].token_id # filteredActions[p[2] + 1].token_id

\* The members of S in ascending order
Ascending(S, n) == SelectSeq([k \in 1..n |-> k], LAMBDA k : k \in S)

\* C12: the actions processed so far are split, in input order, between the
\* output rows and the failed list, each action in exactly one of them: an
\* action without a swap is failed with no_swap_found, an action whose
\* iteration threw is failed with the error's message, every other action has
\* its output row; when the loop has ended every filtered action is processed.
C12_EveryActionOnce ==
    ipc \in {"value", "done"} =>
        LET n == i - 1
        IN  /\ ipc = "done" => n = Len(filteredActions)
            /\ \E S \in SUBSET (1..n) :
                  LET out == Ascending(S, n)
                      fl == Ascending((1..n) \ S, n)
                  IN  /\ Len(outputRows) = Len(out)
                      /\ Len(failed) = Len(fl)
                      /\ \A k \in 1..Len(out) :
                            LET swapEvent == findSwapForAction(swapsCache, filteredActions[out[k]])
                            IN  /\ swapEvent # <<>>
                                /\ outputRows[k] = OutputRow(filteredActions, out[k], swapEvent[1])
                      /\ \A k \in 1..Len(fl) :
                            /\ failed[k].action = filteredActions[fl[k]]
                            /\ IF findSwapForAction(swapsCache, filteredActions[fl[k]]) = <<>>
                               THEN failed[k].reason = "no_swap_found"
                               ELSE failed[k].reason \in ErrorMessages

\* The first action found no swap and is in the failed list, the second one
\* was valued after it.
C12_Witness ==
    /\ ipc = "done"
    /\ Len(filteredActions) = 2
    /\ Len(failed) = 1
    /\ failed[1] = [action |-> filteredActions[1], reason |-> "no_swap_found"]
    /\ Len(outputRows) = 1
    /\ outputRows[1].block = filteredActions[2].block_number
    /\ outputRows[1].block_index = filteredActions[2].log_index

\* C20: an invocation of getSwapLogsInRange calls the provider at most
\* retries times; after a rate-limit error on an attempt but the last it has
\* waited and is at the next attempt; a rate-limit error on the last attempt
\* and any other error abort the run with exit code 1 and nothing valued or
\* written; after a successful call the invocation is over, its logs are the
\* last ones pushed and the loop is past its range.
C20_RetryBudget ==
    /\ calls <= retries
    /\ attempt < retries
    /\ response = "rate limit" =>
          IF calls < retries
          THEN ipc = "fetch" /\ attempt = calls /\ Len(waits) = calls
          ELSE ipc = "aborted"
    /\ response = "error" => ipc = "aborted"
    /\ ipc = "aborted" <=> exitCode = <<1>>
    /\ ipc = "aborted" => swapsCache = <<>> /\ outputRows = <<>> /\ failed = <<>>
    /\ response = "ok" =>
          /\ attempt = 0
          /\ callRange[1] + CHUNK_SIZE = start
          /\ LET logs == getSwapLogsInRange(callRange[1], callRange[2])
             IN  /\ Len(swaps) >= Len(logs)
                 /\ SubSeq(swaps, Len(swaps) - Len(logs) + 1, Len(swaps)) = logs

\* The fifth call for a range failed with a rate-limit error after four
\* waits, and the run is aborted although an earlier range was fetched.
C20_Witness ==
    /\ ipc = "aborted"
    /\ response = "rate limit"
    /\ calls = retries
    /\ Len(waits) = retries - 1
    /\ swaps # <<>>

-----------------------------------------------------------------------------
(* Properties of calculateXIRR *)

\* C13: with fewer than 2 flows, or no flow with amount < 0, or no flow with
\* amount > 0, calculateXIRR returns null and has evaluated no NPV.
C13_Preconditions ==
    (\/ Len(cashFlows) < 2
     \/ ~(\E j \in 1..Len(cashFlows) : cashFlows[j].amount < 0)
     \/ ~(\E j \in 1..Len(cashFlows) : cashFlows[j].amount > 0))
    => /\ xpc \in {"call", "returned"}
       /\ npvEvals = 0
       /\ iteration = 0
       /\ xpc = "returned" => xirr = << <<>> >>

\* Two flows, both deposits: null without an iteration.
C13_Witness ==
    /\ xpc = "returned"
    /\ Len(cashFlows) = 2
    /\ \A j \in 1..2 : cashFlows[j].amount < 0
    /\ xirr = << <<>> >>
    /\ npvEvals = 0

\* What the step after an evaluated iteration does
C14_AfterEvaluation ==
    (xpc = "loop" /\ sums # <<>>) =>
        IF FLess(FAbs(sums[1].npv), tolerance)
        THEN xpc' = "returned" /\ xirr' = << <<FMul(rate[1], F100)>> >>
        ELSE IF sums[1].dnpv.m = 0
        THEN xpc' = "returned" /\ xirr' = << <<>> >>
        ELSE xpc' = "loop" /\ iteration' = iteration + 1 /\ sums' = <<>>

\* What the step at the head of the loop does
C14_AtLoopHead ==
    (xpc = "loop" /\ sums = <<>>) =>
        IF iteration < maxIterations
        THEN npvEvals' = npvEvals + 1 /\ sums' # <<>> /\ xpc' = "loop"
        ELSE xpc' = "returned" /\ xirr' = << <<>> >>

\* C14: calculateXIRR returns, after at most maxIterations evaluations of the
\* NPV: at the first iteration with |npv| < tolerance it returns rate * 100,
\* at the first iteration with dnpv = 0 and no convergence it returns null,
\* and after maxIterations iterations without convergence it returns null.
C14_Terminates ==
    /\ [](npvEvals <= maxIterations /\ npvEvals <= iteration + 1)
    /\ [][C14_AfterEvaluation /\ C14_AtLoopHead]_vars
    /\ <>(xpc = "returned")

\* A call returned null after exactly maxIterations evaluations.
C14_Witness ==
    /\ xpc = "returned"
    /\ npvEvals = maxIterations
    /\ iteration = maxIterations
    /\ xirr = << <<>> >>

\* v * 10^k as an integer comparison: lo <= x * 10^k <= hi
FScaledWithin(x, k, lo, hi) ==
    IF x.e + k >= 0
    THEN lo <= x.m * Pow10(x.e + k) /\ x.m * Pow10(x.e + k) <= hi
    ELSE lo * Pow10(-(x.e + k)) <= x.m /\ x.m <= hi * Pow10(-(x.e + k))

\* C15: the rate of every iteration lies in [-0.99, 10], and a returned
\* percentage lies in [-99, 1000].
C15_RateClamped ==
    /\ rate # <<>> => FScaledWithin(rate[1], 2, -99, 1000)
    /\ (xirr # <<>> /\ xirr[1] # <<>>) => FScaledWithin(xirr[1][1], 0, -99, 1000)

\* An iteration starts at the upper cap after an update was clamped.
C15_Witness ==
    /\ xpc = "loop"
    /\ iteration > 0
    /\ rate[1] = RateMax

\* The permutations of a list
AllPermutations(cf) ==
    LET n == Len(cf)
    IN  {[k \in 1..n |-> cf[p[k]]] :
            p \in {f \in [1..n -> 1..n] : \A a, b \in 1..n : f[a] = f[b] => a = b}}

\* The permutations of a list that keep the flows of one date in their order
DateStablePermutations(cf) ==
    LET n == Len(cf)
    IN  {[k \in 1..n |-> cf[p[k]]] :
            p \in {f \in [1..n -> 1..n] :
                    /\ \A a, b \in 1..n : f[a] = f[b] => a = b
                    /\ \A a, b \in 1..n :
                          (a < b /\ cf[f[a]].date = cf[f[b]].date) => f[a] < f[b]}}

C16_SameSortedList ==
    /\ \A q \in DateStablePermutations(cashFlows) :
          /\ XirrAccepts(q) = XirrAccepts(cashFlows)
          /\ SortByDate(q) = SortByDate(cashFlows)
    /\ xpc = "loop" => sorted = SortByDate(cashFlows)
    /\ xpc = "returned" => calculateXIRR(cashFlows) = xirr[1]

IsTenPercentExample(cf) ==
    /\ Len(cf) = 2
    /\ {cf[1], cf[2]} = {CashFlow(0, -1000), CashFlow(365 * TicksPerDay, 1100)}

\* C17: on -1000 at day 0 and +1100 at day 365 calculateXIRR returns a rate
\* within 0.01 of 10.
C17_TenPercent ==
    (xpc = "returned" /\ IsTenPercentExample(cashFlows)) =>
        /\ xirr[1] # <<>>
        /\ FScaledWithin(xirr[1][1], 2, 999, 1001)

\* The example has returned, after one evaluation.
C17_Witness ==
    /\ xpc = "returned"
    /\ IsTenPercentExample(cashFlows)
    /\ xirr[1] # <<>>
    /\ npvEvals = 1

-----------------------------------------------------------------------------
(* Properties of the wallet XIRR and APR *)

\* Some position of the file has a mint and no burn
HasOpenPosition == \E k \in 1..Len(positionStats) : IsUnclosed(positionStats[k])

\* C18 (as documented): when the rows contain an open position the wallet
\* XIRR is not available (null); a rate is calculated only when every
\* position is closed.
C18_NotAvailableWhenOpen ==
    (apc = "done" /\ HasOpenPosition) => walletXirr = << <<>> >>

\* The USD value of the mints of Complete positions, summed over the rows
CompleteDeposits ==
    LET mints == SelectSeq(CompleteOrNoTokenRows, LAMBDA r : r.action = "mint")
    IN  SumSeq([k \in 1..Len(mints) |-> mints[k].amount0_usd + mints[k].amount1_usd])

CompleteCount ==
    Cardinality({t \in PositionIds : PositionHas(t, "mint") /\ PositionHas(t, "burn")})

\* C19: the wallet APR is (totalProfit / (totalDeposits / positionCount)) *
\* (365 / daysActive) * 100 over the Complete positions, and is null when
\* positionCount = 0 or daysActive = 0.
C19_WalletApr ==
    walletStats # <<>> =>
        LET w == walletStats[1]
        IN  /\ (CompleteCount = 0 \/ w.days_active.n = 0) => w.apr = <<>>
            /\ (CompleteCount > 0 /\ CompleteDeposits > 0 /\ w.days_active.n > 0) =>
                  w.apr = <<Rat(w.total_profit_usd * CompleteCount * 365 * 100 * w.days_active.d,
                                CompleteDeposits * w.days_active.n)>>

\* The APR of a wallet with two Complete positions was calculated.
C19_Witness ==
    /\ walletStats # <<>>
    /\ CompleteCount = 2
    /\ walletStats[1].apr # <<>>
    /\ walletStats[1].total_profit_usd > 0

-----------------------------------------------------------------------------
(* Properties of the fetch loop and the start of main *)

\* C27 (as stated, and as the comment at the sleep says): every rate-limit
\* failure of a call of getSwapLogsInRange is followed by a wait, the wait
\* after 0-based attempt n being 2^n seconds: 1s, 2s, 4s, 8s, 16s for the
\* five attempts.
C27_WaitAfterEveryFailure ==
    response = "rate limit" => waits = [n \in 1..calls |-> Pow2(n - 1) * 1000]

\* C21: when actions.csv or earnings_per_action.csv is missing the run ends
\* with exit code 1 at the existence tests: no file is read, no swap range is
\* requested, no price is fetched and no row is valued or written.
C21_AbortOnMissingInput ==
    inputFiles # {"actions.csv", "earnings_per_action.csv"} =>
        /\ ipc \in {"start", "aborted"}
        /\ ipc = "aborted" => exitCode = <<1>>
        /\ filteredActions = <<>> /\ earnings = <<>> /\ aeroPriceMap = <<>>
        /\ calls = 0 /\ requested = <<>> /\ swaps = <<>> /\ swapsCache = <<>>
        /\ outputRows = <<>> /\ failed = <<>>

\* The run has aborted with only earnings_per_action.csv missing.
C21_Witness ==
    /\ ipc = "aborted"
    /\ inputFiles = {"actions.csv"}
    /\ exitCode = <<1>>

\* C22 (as stated): the decoded price is 10^(decimals1 - decimals0) * Q96^2 /
\* sqrtPriceX96^2 with no precision lost to the conversion of the unsquared
\* integer: the float returned lies within one unit in its last place of
\* that exact quotient.
C22_ExactDecodedPrice ==
    (fn = "calculateCbBtcPrice" /\ fnResult # <<>>) =>
        LET r == fnResult[1]
            A == Pow10(TOKEN1_DECIMALS - TOKEN0_DECIMALS) * Q96 * Q96
            B == fnArg * fnArg
        IN  /\ r.e <= 0
            /\ Abs(r.m * B - A * Pow10(-r.e)) <= B

\* C26 (as stated): every position is Complete, PreExisting or Unclosed, so
\* the three counts of the breakdown add up to the number of positions and
\* the excluded count of the summary (positions - complete) is the excluded
\* count of the breakdown (pre-existing + unclosed).
C26_OneLifecycleState ==
    breakdown # <<>> =>
        /\ breakdown[1].completePositionsCount + breakdown[1].preExistingCount
              + breakdown[1].unclosedPositionsCount = Len(positionStats)
        /\ Len(positionStats) - Len(SelectSeq(positionStats, IsComplete))
              = breakdown[1].excludedCount

\* C28 (as stated): the wallet's total profit is the withdrawals minus the
\* deposits of the Complete positions plus total_collected_aero_rewards_usd,
\* the reward USD of every row that belongs to a Complete position or has no
\* token_id, each counted once.
C28_WalletProfit ==
    walletStats # <<>> =>
        walletStats[1].total_profit_usd =
            walletStats[1].total_withdraw_usd - walletStats[1].total_deposit_usd
                + walletStats[1].total_collected_aero_rewards_usd

AllSameDate(cf) == \A j, k \in 1..Len(cf) : cf[j].date = cf[k].date

\* The amounts added in the order of the list, as npv += amount * 1 adds them
RECURSIVE AmountsAdded(_, _)
AmountsAdded(cf, j) ==
    IF j = 0 THEN FZero ELSE FAdd(AmountsAdded(cf, j - 1), FromInt(cf[j].amount))

\* C30: when all cash flows have one date and there is a negative and a
\* positive flow, calculateXIRR returns after one evaluation, at which the
\* derivative is zero: it returns 10 (percent, the first guess) if the
\* amounts as added up are within 1e-6 of zero, and nothing otherwise.
C30_SameDate ==
    (xpc = "returned" /\ XirrAccepts(cashFlows) /\ AllSameDate(cashFlows)) =>
        /\ npvEvals = 1
        /\ iteration = 0
        /\ sums[1].dnpv.m = 0
        /\ xirr[1] = IF FLess(FAbs(AmountsAdded(cashFlows, Len(cashFlows))),
                              Float(Pow10(Precision - 1), -6 - (Precision - 1)))
                      THEN <<FromInt(10)>>
                      ELSE <<>>

\* Two flows of one date that cancel: 10 is returned after one evaluation.
C30_Witness ==
    /\ xpc = "returned"
    /\ cashFlows = <<CashFlow(0, -1000), CashFlow(0, 1000)>>
    /\ npvEvals = 1
    /\ xirr = << <<FromInt(10)>> >>

\* C23: calculateDailyStats returns one entry per distinct date of the rows,
\* in strictly ascending date order; an entry counts exactly the rows of its
\* date, so the events_count add up to the number of rows; daily_income_usd
\* is fees_collected_usd + aero_rewards_collected; capital_deployed_usd is
\* the sum of deposit_value_usd - withdraw_value_usd over the day and all
\* earlier days; every numeric field of the TOTAL row is the sum of that
\* field over the days.
C23_DailyStats ==
    (fn = "calculateDailyStats" /\ fnResult # <<>>) =>
        LET days == fnResult[1].dailyStats
            total == fnResult[1].dailySummary
            n == Len(days)
            Sum(f) == SumSeq([k \in 1..n |-> days[k][f]])
        IN  /\ \A k \in 1..(n - 1) : days[k].date < days[k + 1].date
            /\ {days[k].date : k \in 1..n}
                  = {DateOf(fnArg[j].timestamp) : j \in 1..Len(fnArg)}
            /\ \A k \in 1..n :
                  /\ days[k].events_count =
                        Cardinality({j \in 1..Len(fnArg) :
                                        DateOf(fnArg[j].timestamp) = days[k].date})
                  /\ days[k].daily_income_usd =
                        days[k].fees_collected_usd + days[k].aero_rewards_collected
                  /\ days[k].capital_deployed_usd =
                        SumSeq([j \in 1..k |->
                                   days[j].deposit_value_usd - days[j].withdraw_value_usd])
            /\ Sum("events_count") = Len(fnArg)
            /\ \A f \in DOMAIN total \ {"date"} : total[f] = Sum(f)

\* Three rows of three days given latest day first: three entries in
\* ascending order, the capital of the last day below that of the day before.
C23_Witness ==
    /\ fn = "calculateDailyStats"
    /\ fnResult # <<>>
    /\ Len(fnArg) = 3
    /\ DateOf(fnArg[1].timestamp) = 2 /\ DateOf(fnArg[3].timestamp) = 0
    /\ Len(fnResult[1].dailyStats) = 3
    /\ fnResult[1].dailyStats[3].capital_deployed_usd
          < fnResult[1].dailyStats[2].capital_deployed_usd

\* C25 (as stated): the AERO rewards the batch comparison reports for a
\* wallet are the aero_rewards_collected of the TOTAL row of the wallet's
\* daily file, whatever the number of days in the file.
C25_AeroRewardsTotal ==
    (fn = "calculateDailyStats" /\ Len(fnResult) = 2) =>
        fnResult[2].aeroRewards = fnResult[1].dailySummary.aero_rewards_collected

\* C24: getAeroPrice returns 1 for an empty map; for a non-empty map it
\* returns the price of an entry at the minimum |time - target|, and of the
\* entries at that minimum the one inserted first.
C24_ClosestAeroPrice ==
    (fn = "getAeroPrice" /\ fnResult # <<>>) =>
        LET m == fnArg.map
            dist == [k \in 1..Len(m) |-> Abs(m[k].time - fnArg.timestamp)]
        IN  IF m = <<>> THEN fnResult[1] = 1
            ELSE \E k \in 1..Len(m) :
                    /\ \A j \in 1..Len(m) : dist[k] <= dist[j]
                    /\ \A j \in 1..(k - 1) : dist[j] > dist[k]
                    /\ fnResult[1] = m[k].price

\* Two entries at the same distance with different prices, the later time
\* inserted first: its price is returned.
C24_Witness ==
    /\ fn = "getAeroPrice"
    /\ fnArg = [map |-> <<[time |-> 3, price |-> 3], [time |-> 1, price |-> 2]>>,
                timestamp |-> 2]
    /\ fnResult = <<3>>

\* C29: the ranges fetchAllSwapsInRange requests start at fromBlock, each
\* starts right after the one before it ends (so they are ascending and
\* disjoint), each spans at most 10000 blocks, and when the loop has ended
\* the last one ends at toBlock: their union is [fromBlock, toBlock].
C29_ChunkRanges ==
    LET from == FromBlock(filteredActions)
        to == ToBlock(filteredActions)
        n == Len(requested)
    IN  /\ \A k \in 1..n :
              /\ requested[k][1] <= requested[k][2]
              /\ requested[k][2] - requested[k][1] + 1 <= 10000
              /\ requested[k][2] <= to
        /\ n > 0 => requested[1][1] = from
        /\ \A k \in 1..(n - 1) : requested[k + 1][1] = requested[k][2] + 1
        /\ ipc = "value" => IF from <= to THEN n > 0 /\ requested[n][2] = to ELSE n = 0

\* The loop has ended after 11 chunks of exactly 10000 blocks, and one call
\* was retried.
C29_Witness ==
    /\ ipc = "value"
    /\ Len(requested) = 11
    /\ requested[11] = <<100000, 109999>>
    /\ waits # <<>>
====
